---- MODULE Spec2Model ----
(***************************************************************************)
(* Model of the PDF fixture generators of e2e-tests/scripts:               *)
(*   generate_lorem_pdf.py        (the text generator)                     *)
(*   generate_large_pdf_binary.py (the large-binary generator)             *)
(*   generate_corrupted_pdf.py    (the corruption variants)                *)
(*   generate_multipage_test_pdf.py (the multi-page generator)             *)
(* and of the main() functions that run them from the command line.        *)
(*                                                                         *)
(* The output file is the sequence of the pieces written so far.  A piece  *)
(* is a run of bytes of one f.write call: its text is the very string the  *)
(* code writes, so the file position f.tell() is the sum of the byte       *)
(* lengths of the pieces.  Beside its text a piece carries what the text   *)
(* says (object number, references, declared numbers), read off the same   *)
(* expressions the code formats into the text.                             *)
(***************************************************************************)
EXTENDS Integers, Sequences, FiniteSets, TLC

VARIABLES
    gen,             \* which generator function runs
    pc,              \* the statement the generator is at
    out,             \* f: the pieces written to the output file so far
    obj_positions,   \* dict: object number -> offset
    current_obj,     \* next object number (text generator)
    pages_obj,       \* number of the Pages object (text generator)
    xref_pos,        \* offset captured for the index table
    page_height,     \* page geometry (text generator)
    wrapped_lines,   \* the display lines to paginate (text generator)
    total_pages,     \* number of pages (text generator)
    page_num,        \* loop variable of the page and stream loops
    xi,              \* loop variable i of the index-entry loop
    target_size_mb,  \* requested size (large-binary generator)
    current_pos,     \* f.tell() before the padding (large-binary generator)
    padding_needed,  \* bytes of padding to write (large-binary generator)
    padding_written, \* bytes of padding written (large-binary generator)
    chunk,           \* chunk_size of the padding loop (large-binary generator)
    line,            \* a line entering a content stream (escaping rule)
    escaped_line,    \* the escaped line (escaping rule)
    word_count,      \* requested number of words (text generator)
    words,           \* the words generated so far (text generator)
    num_pages,       \* requested number of pages (multi-page generator)
    elements,        \* the flowables handed to the document builder
    stamp,           \* the clock: datetime.now() at its last reading
    run,             \* 1 in the first run of a generator, 2 in a repeated run
    prev_out,        \* the output file the first run left
    prog,            \* the script whose main() runs
    mpc,             \* the statement main() is at
    variant,         \* args.corruption_type
    exists,          \* os.path.exists(filename) when main() looks
    response,        \* what the caller types at the overwrite prompt
    prompted,        \* the overwrite prompt has been shown
    made_dir,        \* output_path.parent.mkdir has been called
    status,          \* exit status of the script, -1 while it runs
    tpc,             \* the statement main() of tag-release.py is at
    repo,            \* the checkout and its remote as the run finds them
    version,         \* version read from Cargo.toml (tag-release.py)
    origin_main,     \* the remote-tracking ref origin/main
    fetched,         \* git fetch origin has succeeded in this run
    tags,            \* the tags of the local repository
    remote_tags,     \* the tags of origin
    tstatus,         \* exit status of tag-release.py, -1 while it runs
    text_width       \* width of the text area of a page (text generator)

vars == <<gen, pc, out, obj_positions, current_obj, pages_obj, xref_pos,
          page_height, wrapped_lines, total_pages, page_num, xi,
          target_size_mb, current_pos, padding_needed, padding_written,
          chunk, line, escaped_line, word_count, words, num_pages, elements,
          stamp, run, prev_out, prog, mpc, variant, exists, response,
          prompted, made_dir, status, tpc, repo, version, origin_main,
          fetched, tags, remote_tags, tstatus, text_width>>

(***************************************************************************)
(* Bounds of the model.                                                    *)
(***************************************************************************)
\* longest list of wrapped lines under the real page geometry
MaxLines == 93
\* longest list of wrapped lines under the small page geometries
MaxLayoutLines == 7
\* largest lines_per_page of the small page geometries
MaxLpp == 3
\* largest requested size of the large-binary generator, in MB
MaxSizeMb == 3
\* longest line given to the escaping rule
MaxLineLen == 3
\* largest padding_needed given to the padding loop on its own
MaxPad == 9
\* largest chunk size given to the padding loop on its own
MaxChunk == 5
\* number of entries of LOREM_WORDS that random.choice draws from
PoolSize == 2
\* largest number of words asked of the text generator
MaxWords == 2
\* largest number of pages asked of the multi-page generator
MaxPages == 21
\* latest reading of the clock
MaxClock == 2

(***************************************************************************)
(* Page geometry and text formatting of create_pdf_with_text.              *)
(***************************************************************************)
page_width == 612
LetterHeight == 792
margin == 72
font_size == 12
line_height == 14

text_height(ph) == ph - (2 * margin)
\* int(text_height / line_height): truncation of a quotient of naturals
lines_per_page(ph) == text_height(ph) \div line_height

(***************************************************************************)
(* Strings and the output file.                                            *)
(***************************************************************************)
Str(n) == ToString(n)

RECURSIVE ZeroPad(_, _)
ZeroPad(s, w) == IF Len(s) >= w THEN s ELSE ZeroPad("0" \o s, w)

\* f"{n:010d}"
Fmt010d(n) == ZeroPad(Str(n), 10)

\* ''.join(chars)
RECURSIVE Join(_)
Join(s) == IF s = <<>> THEN "" ELSE Head(s) \o Join(Tail(s))

\* a run of bytes written to the file, and what the bytes say
Pc(k, n, text) ==
    [k |-> k, n |-> n, text |-> text, zeros |-> 0, type |-> "",
     refs |-> <<>>, val |-> -1, lines |-> <<>>]

PieceLen(p) == Len(p.text) + p.zeros

RECURSIVE SumLen(_, _)
SumLen(f, k) == IF k <= 0 THEN 0 ELSE PieceLen(f[k]) + SumLen(f, k - 1)

\* f.tell(): the number of bytes written so far
TellBeforeLastWrite(f) == SumLen(f, Len(f) - 1)
Tell(f) == SumLen(f, Len(f))

\* f.write(...) of the bytes of the pieces ps
Write(f, ps) == f \o ps

\* d[k] = v
DictSet(d, k, v) ==
    [x \in (DOMAIN d) \cup {k} |-> IF x = k THEN v ELSE d[x]]

EmptyDict == [x \in {} |-> 0]

\* f"{n} 0 obj\n", the introducer line of object n
Introducer(n) == Pc("intro", n, Str(n) \o " 0 obj\n")

\* f"{n} 0 R"
Ref(n) == Str(n) \o " 0 R"

(***************************************************************************)
(* The wrapped lines.  A line is a sequence of characters.  The lines      *)
(* follow the shape the wrapping gives them: paragraphs of three lines     *)
(* separated by one blank line, the last line ending the text with a       *)
(* period and never blank.                                                 *)
(***************************************************************************)
LinePool ==
    << <<"L", "o", "r", "e", "m", " ", "i", "p", "s", "u", "m">>,
       <<"d", "o", "l", "o", "r", " ", "s", "i", "t", ",">>,
       <<"a", "m", "e", "t", ".">>,
       <<>> >>

LastLine == <<"L", "o", "r", "e", "m", ".">>

LineAt(i, L) ==
    IF i = L /\ (i % 4) # 3 THEN LastLine ELSE LinePool[((i - 1) % 4) + 1]

Lines(L) == [i \in 1..L |-> LineAt(i, L)]

(***************************************************************************)
(* Pagination (create_pdf_with_text).                                      *)
(***************************************************************************)
Max(a, b) == IF a >= b THEN a ELSE b
Min(a, b) == IF a <= b THEN a ELSE b

\* max(1, (len(wrapped_lines) + lines_per_page - 1) // lines_per_page)
TotalPagesNoFloor(n, lpp) == (n + lpp - 1) \div lpp
TotalPages(n, lpp) == Max(1, (n + lpp - 1) \div lpp)

\* wrapped_lines[start_line:end_line] of page page_num (0-based)
PageLinesShifted(ls, p, lpp) ==
    LET start_line == p * lpp + 1
        end_line == Min(start_line + lpp, Len(ls))
    IN  SubSeq(ls, start_line + 1, end_line)
PageLines(ls, p, lpp) ==
    LET start_line == p * lpp
        end_line == Min(start_line + lpp, Len(ls))
    IN  SubSeq(ls, start_line + 1, end_line)

(***************************************************************************)
(* The escaping rule: str.replace of one character by a string, applied    *)
(* to every occurrence from left to right.                                 *)
(***************************************************************************)
RECURSIVE Replace(_, _, _)
Replace(s, ch, rep) ==
    IF s = <<>> THEN <<>>
    ELSE (IF Head(s) = ch THEN rep ELSE <<Head(s)>>) \o Replace(Tail(s), ch, rep)

\* line.replace('(', '\\(').replace(')', '\\)').replace('\\', '\\\\')
EscapeParensFirst(l) ==
    Replace(Replace(Replace(l, "(", <<"\\", "(">>), ")", <<"\\", ")">>),
            "\\", <<"\\", "\\">>)
\* line.replace('\\', '\\\\').replace('(', '\\(').replace(')', '\\)')
Escape(l) ==
    Replace(Replace(Replace(l, "\\", <<"\\", "\\">>), "(", <<"\\", "(">>),
            ")", <<"\\", ")">>)

(***************************************************************************)
(* The objects of create_pdf_with_text.                                    *)
(***************************************************************************)
\* Object 1: Catalog
TextCatalogObj(n) ==
    << Introducer(n),
       [Pc("dict", n, "<<\n/Type /Catalog\n/Pages " \o Ref(n + 1)
                      \o "\n>>\nendobj\n")
          EXCEPT !.type = "Catalog", !.refs = << <<"Pages", n + 1>> >>] >>

\* page_refs: the references of the Kids array
Kids(n, tp) == [i \in 1..tp |-> n + 1 + (i - 1)]

RECURSIVE JoinRefs(_)
JoinRefs(ks) ==
    IF ks = <<>> THEN ""
    ELSE IF Len(ks) = 1 THEN Ref(ks[1])
    ELSE Ref(ks[1]) \o " " \o JoinRefs(Tail(ks))

\* /Count of the Pages object
PagesCountStale(tp) == 1
PagesCount(tp) == tp

\* Object 2: Pages
TextPagesObj(n, tp) ==
    << Introducer(n),
       [Pc("dict", n, "<<\n/Type /Pages\n/Kids [" \o JoinRefs(Kids(n, tp))
                      \o "]\n/Count " \o Str(PagesCount(tp))
                      \o "\n>>\nendobj\n")
          EXCEPT !.type = "Pages",
                 !.refs = [i \in 1..tp |-> <<"Kids", Kids(n, tp)[i]>>],
                 !.val = PagesCount(tp)] >>

\* content_obj = current_obj + total_pages
ContentObjNext(n, tp) == n + 1
ContentObjShared(n, tp) == n + tp - ((n - 3) % 2)
ContentObj(n, tp) == n + tp

\* a Page object
TextPageObj(n, parent, tp, ph) ==
    << Introducer(n),
       [Pc("dict", n,
           "<<\n/Type /Page\n/Parent " \o Ref(parent)
           \o "\n/MediaBox [0 0 " \o Str(page_width) \o " " \o Str(ph)
           \o "]\n/Resources <<\n  /Font <<\n    /F1 <<\n      /Type /Font\n"
           \o "      /Subtype /Type1\n      /BaseFont /Helvetica\n    >>\n"
           \o "  >>\n>>\n/Contents " \o Ref(ContentObj(n, tp))
           \o "\n>>\nendobj\n")
          EXCEPT !.type = "Page",
                 !.refs = << <<"Parent", parent>>,
                             <<"Contents", ContentObj(n, tp)>> >>] >>

\* the text-showing operators of the lines of one page
RECURSIVE ShowLines(_)
ShowLines(ls) ==
    IF ls = <<>> THEN ""
    ELSE "(" \o Join(Escape(Head(ls))) \o ") Tj\n0 -" \o Str(line_height)
         \o " Td\n" \o ShowLines(Tail(ls))

\* content_stream of page page_num (0-based)
ContentStream(ls, p, tp, ph) ==
    "BT\n/F1 " \o Str(font_size) \o " Tf\n" \o Str(margin) \o " "
    \o Str(ph - margin - font_size) \o " Td\n"
    \o ShowLines(ls)
    \o "0 " \o Str(margin - ph + 30) \o " Td\n"
    \o "(Page " \o Str(p + 1) \o " of " \o Str(tp) \o ") Tj\n"
    \o "ET\n"

\* len(content_bytes), the declared /Length
DeclaredLengthBeforeLabel(ls, p, tp, ph) ==
    Len(ContentStream(ls, p, tp, ph)) - Len("ET\n")
DeclaredLength(ls, p, tp, ph) == Len(ContentStream(ls, p, tp, ph))

\* a content stream object
TextStreamObj(n, ls, p, tp, ph) ==
    << Introducer(n),
       [Pc("dict", n, "<<\n/Length " \o Str(DeclaredLength(ls, p, tp, ph))
                      \o "\n>>\nstream\n")
          EXCEPT !.type = "Stream", !.val = DeclaredLength(ls, p, tp, ph)],
       [Pc("payload", n, ContentStream(ls, p, tp, ph)) EXCEPT !.lines = ls],
       Pc("endstream", n, "endstream\nendobj\n") >>

(***************************************************************************)
(* The index table and the trailer.                                        *)
(***************************************************************************)
XrefKeyword == Pc("xref_kw", 0, "xref\n")

\* f"0 {current_obj}\n"
XrefHeaderShort(n) == [Pc("xref_hdr", 0, "0 " \o Str(n - 1) \o "\n") EXCEPT !.val = n - 1]
XrefHeader(n) == [Pc("xref_hdr", 0, "0 " \o Str(n) \o "\n") EXCEPT !.val = n]

FreeHead == Pc("free", 0, "0000000000 65535 f \n")

\* f"{obj_positions[i]:010d} 00000 n \n"
XrefEntryUnpadded(i, pos) ==
    [Pc("entry", i, Str(pos) \o " 00000 n \n") EXCEPT !.val = pos]
XrefEntry(i, pos) ==
    [Pc("entry", i, Fmt010d(pos) \o " 00000 n \n") EXCEPT !.val = pos]

\* the trailer dictionary, the start-of-index value and the end-of-file marker
Trailer(size, xpos, extra, extraRefs) ==
    << [Pc("trailer", 0, "trailer\n<<\n/Size " \o Str(size) \o "\n/Root "
                         \o Ref(1) \o "\n" \o extra \o ">>\n")
          EXCEPT !.val = size, !.refs = << <<"Root", 1>> >> \o extraRefs],
       [Pc("startxref", 0, "startxref\n" \o Str(xpos) \o "\n")
          EXCEPT !.val = xpos],
       Pc("eof", 0, "%%EOF\n") >>

(***************************************************************************)
(* create_pdf_with_text, statement by statement.                           *)
(***************************************************************************)
Idle ==
    /\ obj_positions = EmptyDict /\ current_obj = 0 /\ pages_obj = 0
    /\ xref_pos = 0 /\ total_pages = 0 /\ page_num = 0 /\ xi = 0
    /\ out = <<>>

NoText == page_height = 0 /\ wrapped_lines = <<>> /\ text_width = 0
NoLarge ==
    /\ target_size_mb = 0 /\ current_pos = 0
    /\ padding_needed = 0 /\ padding_written = 0 /\ chunk = 0
NoEscape == line = <<>> /\ escaped_line = <<>>
NoWords == word_count = 0 /\ words = <<>>
NoMulti == num_pages = 0 /\ elements = <<>> /\ stamp = 0
FirstRun == run = 1 /\ prev_out = <<>>
NoCli ==
    /\ prog = "none" /\ mpc = "none" /\ variant = "" /\ exists = FALSE
    /\ response = <<>> /\ prompted = FALSE /\ made_dir = FALSE /\ status = -1
\* a generator function called on its own, once
NoRepo ==
    [git |-> TRUE, cargo |-> "missing", version |-> "", branch |-> "main",
     dirty |-> FALSE, head |-> "a", remote_main |-> "a", refs |-> {},
     tags |-> {}, remote_tags |-> {}]
NoTag ==
    /\ tpc = "none" /\ repo = NoRepo /\ version = "" /\ origin_main = "a"
    /\ fetched = FALSE /\ tags = {} /\ remote_tags = {} /\ tstatus = -1
NoOther == NoWords /\ NoMulti /\ FirstRun /\ NoCli /\ NoTag

writerVars ==
    <<obj_positions, current_obj, pages_obj, xref_pos, total_pages, xi>>
textVars == <<page_height, wrapped_lines, text_width>>
largeVars ==
    <<target_size_mb, current_pos, padding_needed, padding_written, chunk>>
escVars == <<line, escaped_line>>
wordVars == <<word_count, words>>
multiVars == <<num_pages, elements, stamp>>
runVars == <<run, prev_out>>
cliVars ==
    <<prog, mpc, variant, exists, response, prompted, made_dir, status>>
tagVars ==
    <<tpc, repo, version, origin_main, fetched, tags, remote_tags, tstatus>>
otherVars == <<wordVars, multiVars, runVars, cliVars, tagVars>>

\* total_pages = max(1, ...)
TextPaginate ==
    /\ gen = "text" /\ pc = "paginate"
    /\ total_pages' = TotalPages(Len(wrapped_lines), lines_per_page(page_height))
    /\ pc' = "open"
    /\ UNCHANGED <<gen, out, obj_positions, current_obj, pages_obj, xref_pos,
                   page_num, xi, textVars, largeVars, escVars, otherVars>>

\* open(filename, "wb"); the header; obj_positions = {}; current_obj = 1
TextHeader ==
    /\ gen = "text" /\ pc = "open"
    /\ out' = Write(<<>>, <<Pc("header", 0, "%PDF-1.4\n")>>)
    /\ obj_positions' = EmptyDict
    /\ current_obj' = 1
    /\ pc' = "catalog"
    /\ UNCHANGED <<gen, pages_obj, xref_pos, total_pages, page_num, xi,
                   textVars, largeVars, escVars, otherVars>>

TextCatalog ==
    /\ gen = "text" /\ pc = "catalog"
    /\ obj_positions' = DictSet(obj_positions, current_obj, Tell(out))
    /\ out' = Write(out, TextCatalogObj(current_obj))
    /\ current_obj' = current_obj + 1
    /\ pc' = "pages"
    /\ UNCHANGED <<gen, pages_obj, xref_pos, total_pages, page_num, xi,
                   textVars, largeVars, escVars, otherVars>>

TextPages ==
    /\ gen = "text" /\ pc = "pages"
    /\ obj_positions' = DictSet(obj_positions, current_obj, Tell(out))
    /\ pages_obj' = current_obj
    /\ out' = Write(out, TextPagesObj(current_obj, total_pages))
    /\ current_obj' = current_obj + 1
    /\ page_num' = 0
    /\ pc' = "page_loop"
    /\ UNCHANGED <<gen, xref_pos, total_pages, xi, textVars, largeVars, escVars,
                   otherVars>>

\* one iteration of: for page_num in range(total_pages)  (Page objects)
TextPage ==
    /\ gen = "text" /\ pc = "page_loop" /\ page_num < total_pages
    /\ obj_positions' = DictSet(obj_positions, current_obj, Tell(out))
    /\ out' = Write(out, TextPageObj(current_obj, pages_obj, total_pages,
                                     page_height))
    /\ current_obj' = current_obj + 1
    /\ page_num' = page_num + 1
    /\ UNCHANGED <<gen, pc, pages_obj, xref_pos, total_pages, xi,
                   textVars, largeVars, escVars, otherVars>>

TextPageLoopEnd ==
    /\ gen = "text" /\ pc = "page_loop" /\ page_num >= total_pages
    /\ page_num' = 0
    /\ pc' = "stream_loop"
    /\ UNCHANGED <<gen, out, obj_positions, current_obj, pages_obj, xref_pos,
                   total_pages, xi, textVars, largeVars, escVars, otherVars>>

\* one iteration of: for page_num in range(total_pages)  (content streams)
TextStream ==
    /\ gen = "text" /\ pc = "stream_loop" /\ page_num < total_pages
    /\ obj_positions' = DictSet(obj_positions, current_obj, Tell(out))
    /\ LET page_lines == PageLines(wrapped_lines, page_num,
                                   lines_per_page(page_height))
       IN  out' = Write(out, TextStreamObj(current_obj, page_lines, page_num,
                                           total_pages, page_height))
    /\ current_obj' = current_obj + 1
    /\ page_num' = page_num + 1
    /\ UNCHANGED <<gen, pc, pages_obj, xref_pos, total_pages, xi,
                   textVars, largeVars, escVars, otherVars>>

TextStreamLoopEnd ==
    /\ gen = "text" /\ pc = "stream_loop" /\ page_num >= total_pages
    /\ pc' = "xref_pos"
    /\ UNCHANGED <<gen, out, obj_positions, current_obj, pages_obj, xref_pos,
                   total_pages, page_num, xi, textVars, largeVars, escVars,
                   otherVars>>

\* xref_pos = f.tell()
TextXrefPos ==
    /\ gen = "text" /\ pc = "xref_pos"
    /\ xref_pos' = Tell(out)
    /\ pc' = "xref"
    /\ UNCHANGED <<gen, out, obj_positions, current_obj, pages_obj,
                   total_pages, page_num, xi, textVars, largeVars, escVars,
                   otherVars>>

\* the index keyword, the header and the free-head entry
TextXref ==
    /\ gen = "text" /\ pc = "xref"
    /\ out' = Write(out, <<XrefKeyword, XrefHeader(current_obj), FreeHead>>)
    /\ xi' = 1
    /\ pc' = "xref_loop"
    /\ UNCHANGED <<gen, obj_positions, current_obj, pages_obj, xref_pos,
                   total_pages, page_num, textVars, largeVars, escVars,
                   otherVars>>

\* one iteration of: for i in range(1, current_obj)
TextXrefEntry ==
    /\ gen = "text" /\ pc = "xref_loop" /\ xi < current_obj
    /\ out' = Write(out, <<XrefEntry(xi, obj_positions[xi])>>)
    /\ xi' = xi + 1
    /\ UNCHANGED <<gen, pc, obj_positions, current_obj, pages_obj, xref_pos,
                   total_pages, page_num, textVars, largeVars, escVars,
                   otherVars>>

TextXrefLoopEnd ==
    /\ gen = "text" /\ pc = "xref_loop" /\ xi >= current_obj
    /\ pc' = "trailer"
    /\ UNCHANGED <<gen, out, obj_positions, current_obj, pages_obj, xref_pos,
                   total_pages, page_num, xi, textVars, largeVars, escVars,
                   otherVars>>

TextTrailer ==
    /\ gen = "text" /\ pc = "trailer"
    /\ out' = Write(out, Trailer(current_obj, xref_pos, "", <<>>))
    /\ pc' = "done"
    /\ UNCHANGED <<gen, obj_positions, current_obj, pages_obj, xref_pos,
                   total_pages, page_num, xi, textVars, largeVars, escVars,
                   otherVars>>

NextText ==
    \/ TextPaginate \/ TextHeader \/ TextCatalog \/ TextPages
    \/ TextPage \/ TextPageLoopEnd \/ TextStream \/ TextStreamLoopEnd
    \/ TextXrefPos \/ TextXref \/ TextXrefEntry \/ TextXrefLoopEnd
    \/ TextTrailer

\* create_pdf_with_text on the lines of a text, real page geometry
InitText ==
    /\ gen = "text" /\ pc = "paginate"
    /\ page_height = LetterHeight /\ text_width = page_width - (2 * margin)
    /\ \E L \in 1..MaxLines : wrapped_lines = Lines(L)
    /\ Idle /\ NoLarge /\ NoEscape /\ NoOther

\* the layout and writing stage on any list of lines and any page geometry
InitLayout ==
    /\ gen = "text" /\ pc = "paginate"
    /\ \E lpp \in 1..MaxLpp : page_height = 2 * margin + lpp * line_height
    /\ text_width = page_width - (2 * margin)
    /\ \E L \in 0..MaxLayoutLines : wrapped_lines = Lines(L)
    /\ Idle /\ NoLarge /\ NoEscape /\ NoOther


(***************************************************************************)
(* generate_lorem_text and the wrapping of create_pdf_with_text.  A word   *)
(* and a text are sequences of characters.                                 *)
(***************************************************************************)
\* the head of the list of words
LOREM_WORDS ==
    << <<"l", "o", "r", "e", "m">>,
       <<"i", "p", "s", "u", "m">>,
       <<"d", "o", "l", "o", "r">>,
       <<"s", "i", "t">> >>

\* str.capitalize() of a lower-case word
Upper(c) ==
    CASE c = "l" -> "L" [] c = "i" -> "I" [] c = "d" -> "D" [] c = "s" -> "S"
      [] OTHER -> c
Capitalize(w) == IF w = <<>> THEN w ELSE <<Upper(Head(w))>> \o Tail(w)

\* w.endswith('.')
EndsWithDot(w) == w # <<>> /\ w[Len(w)] = "."

\* ' '.join(words)
RECURSIVE JoinWords(_)
JoinWords(ws) ==
    IF ws = <<>> THEN <<>>
    ELSE IF Len(ws) = 1 THEN ws[1]
    ELSE Head(ws) \o <<" ">> \o JoinWords(Tail(ws))

\* int(text_width / (font_size * 0.6))
CharsPerLine(tw) == (tw * 10) \div (font_size * 6)
chars_per_line == CharsPerLine(page_width - (2 * margin))

\* text.split('. ')
RECURSIVE SplitDotSpace(_, _)
SplitDotSpace(t, cur) ==
    IF t = <<>> THEN <<cur>>
    ELSE IF Len(t) >= 2 /\ t[1] = "." /\ t[2] = " "
         THEN <<cur>> \o SplitDotSpace(SubSeq(t, 3, Len(t)), <<>>)
         ELSE SplitDotSpace(Tail(t), Append(cur, Head(t)))

\* the chunks textwrap works on: runs of spaces and runs of other characters
RECURSIVE Chunks(_, _)
Chunks(t, cur) ==
    IF t = <<>> THEN (IF cur = <<>> THEN <<>> ELSE <<cur>>)
    ELSE IF cur # <<>> /\ ((Head(t) = " ") # (cur[1] = " "))
         THEN <<cur>> \o Chunks(Tail(t), <<Head(t)>>)
         ELSE Chunks(Tail(t), Append(cur, Head(t)))

IsBlank(c) == c # <<>> /\ c[1] = " "

RECURSIVE Flat(_)
Flat(cs) == IF cs = <<>> THEN <<>> ELSE Head(cs) \o Flat(Tail(cs))

\* the chunks that fit on the current line: <<line, chunks left>>
RECURSIVE TakeFitting(_, _, _)
TakeFitting(chs, cur, width) ==
    IF chs # <<>> /\ Len(Flat(cur)) + Len(Head(chs)) <= width
    THEN TakeFitting(Tail(chs), Append(cur, Head(chs)), width)
    ELSE <<cur, chs>>

\* TextWrapper._wrap_chunks with the default options
RECURSIVE WrapChunks(_, _, _)
WrapChunks(chs, width, any) ==
    IF chs = <<>> THEN <<>>
    ELSE LET chs1 == IF any /\ IsBlank(Head(chs)) THEN Tail(chs) ELSE chs
             t == TakeFitting(chs1, <<>>, width)
             long == t[2] # <<>> /\ Len(Head(t[2])) > width
             space_left == width - Len(Flat(t[1]))
             cur2 == IF long
                     THEN Append(t[1], SubSeq(Head(t[2]), 1, space_left))
                     ELSE t[1]
             rest == IF long
                     THEN <<SubSeq(Head(t[2]), space_left + 1,
                                   Len(Head(t[2])))>> \o Tail(t[2])
                     ELSE t[2]
             cur3 == IF cur2 # <<>> /\ IsBlank(cur2[Len(cur2)])
                     THEN SubSeq(cur2, 1, Len(cur2) - 1)
                     ELSE cur2
         IN  IF cur3 # <<>>
             THEN <<Flat(cur3)>> \o WrapChunks(rest, width, TRUE)
             ELSE WrapChunks(rest, width, any)

\* textwrap.fill(para, width).split('\n')
FillLines(para, width) ==
    LET ls == WrapChunks(Chunks(para, <<>>), width, FALSE)
    IN  IF ls = <<>> THEN << <<>> >> ELSE ls

\* if para and not para.endswith('.'): para += '.'
CloseParaLeftOpen(para) == para
ClosePara(para) ==
    IF para # <<>> /\ ~EndsWithDot(para) THEN Append(para, ".") ELSE para

\* the loop over the paragraphs: the lines of each, then an empty line
RECURSIVE WrapParas(_, _)
WrapParas(paras, width) ==
    IF paras = <<>> THEN <<>>
    ELSE FillLines(ClosePara(Head(paras)), width) \o << <<>> >>
         \o WrapParas(Tail(paras), width)

\* while wrapped_lines and wrapped_lines[-1] == '': wrapped_lines.pop()
RECURSIVE DropTrailingEmpty(_)
DropTrailingEmpty(ls) ==
    IF ls # <<>> /\ ls[Len(ls)] = <<>>
    THEN DropTrailingEmpty(SubSeq(ls, 1, Len(ls) - 1))
    ELSE ls

WrappedLines(text, width) ==
    DropTrailingEmpty(WrapParas(SplitDotSpace(text, <<>>), width))

genVars == <<gen, out, writerVars, page_num, largeVars, escVars, multiVars,
             runVars, cliVars>>

\* one iteration of: for i in range(word_count); the random draws are the
\* word, the divisor of randint(8, 20) and the outcome of the two
\* random.random() tests
TextGenWord ==
    /\ gen = "text" /\ pc = "words" /\ Len(words) < word_count
    /\ \E w \in 1..PoolSize, r \in 8..20, mark \in {".", ",", ""} :
          LET i == Len(words)
              word == IF i = 0 \/ EndsWithDot(words[i])
                      THEN Capitalize(LOREM_WORDS[w]) ELSE LOREM_WORDS[w]
              marked == ((i + 1) % r = 0) /\ i < word_count - 1 /\ mark # ""
          IN  words' = Append(words, IF marked THEN Append(word, mark)
                                               ELSE word)
    /\ UNCHANGED <<pc, word_count, textVars, genVars,
                   tagVars>>

\* the end of generate_lorem_text: words[-1] of an empty list raises
TextGenEnd ==
    /\ gen = "text" /\ pc = "words" /\ Len(words) >= word_count
    /\ IF words = <<>>
       THEN pc' = "raised" /\ UNCHANGED words
       ELSE /\ words' = IF EndsWithDot(words[Len(words)]) THEN words
                         ELSE [words EXCEPT ![Len(words)] = Append(@, ".")]
            /\ pc' = "wrap"
    /\ UNCHANGED <<word_count, textVars, genVars,
                   tagVars>>

\* text_content = ' '.join(words); the wrapping into wrapped_lines
TextWrap ==
    /\ gen = "text" /\ pc = "wrap"
    /\ wrapped_lines' = WrappedLines(JoinWords(words), CharsPerLine(text_width))
    /\ pc' = "paginate"
    /\ UNCHANGED <<page_height, text_width, wordVars, genVars,
                   tagVars>>

NextWords == TextGenWord \/ TextGenEnd \/ TextWrap

\* create_pdf_with_text(filename, word_count) entered
InitWords ==
    /\ gen = "text" /\ pc = "words"
    /\ word_count \in 1..MaxWords /\ words = <<>>
    /\ page_height = LetterHeight /\ wrapped_lines = <<>>
    /\ text_width = page_width - (2 * margin)
    /\ Idle /\ NoLarge /\ NoEscape /\ NoMulti /\ FirstRun /\ NoCli
    /\ NoTag

(***************************************************************************)
(* create_large_pdf_binary.                                                *)
(***************************************************************************)
footer_size == 200
chunk_size == 1024 * 1024

\* target_size = target_size_mb * 1024 * 1024
target_size(mb) == mb * 1024 * 1024

LargeCatalogObj ==
    << Introducer(1),
       [Pc("dict", 1, "<<\n/Type /Catalog\n/Pages 2 0 R\n>>\nendobj\n")
          EXCEPT !.type = "Catalog", !.refs = << <<"Pages", 2>> >>] >>

LargePagesObj ==
    << Introducer(2),
       [Pc("dict", 2, "<<\n/Type /Pages\n/Kids [3 0 R]\n/Count 1\n>>\nendobj\n")
          EXCEPT !.type = "Pages", !.refs = << <<"Kids", 3>> >>, !.val = 1] >>

LargePageObj ==
    << Introducer(3),
       [Pc("dict", 3,
           "<<\n/Type /Page\n/Parent 2 0 R\n/MediaBox [0 0 612 792]\n"
           \o "/Resources <<\n  /Font <<\n    /F1 <<\n      /Type /Font\n"
           \o "      /Subtype /Type1\n      /BaseFont /Helvetica\n    >>\n"
           \o "  >>\n>>\n/Contents 4 0 R\n>>\nendobj\n")
          EXCEPT !.type = "Page",
                 !.refs = << <<"Parent", 2>>, <<"Contents", 4>> >>] >>

LargeContentStream ==
    "BT\n/F1 14 Tf\n50 750 Td\n(Large binary PDF) Tj\n0 -20 Td\n"
    \o "(Generated for testing purposes) Tj\nET\n"

\* b"4 0 obj\n<<\n/Length " + str(len(content_stream)).encode() + ...
LargeStreamObj ==
    << Introducer(4),
       [Pc("dict", 4, "<<\n/Length " \o Str(Len(LargeContentStream))
                      \o "\n>>\nstream\n")
          EXCEPT !.type = "Stream", !.val = Len(LargeContentStream)],
       Pc("payload", 4, LargeContentStream),
       Pc("endstream", 4, "endstream\nendobj\n") >>

\* b'\x00' * remaining
Padding(remaining) == [Pc("pad", 0, "") EXCEPT !.zeros = remaining]

LargeHeader ==
    /\ gen = "large" /\ pc = "open"
    /\ out' = Write(<<>>, <<Pc("header", 0, "%PDF-1.4\n")>>)
    /\ obj_positions' = EmptyDict
    /\ pc' = "catalog"
    /\ UNCHANGED <<gen, current_obj, pages_obj, xref_pos, total_pages,
                   page_num, xi, textVars, largeVars, escVars, otherVars>>

LargeCatalog ==
    /\ gen = "large" /\ pc = "catalog"
    /\ obj_positions' = DictSet(obj_positions, 1, Tell(out))
    /\ out' = Write(out, LargeCatalogObj)
    /\ pc' = "pages"
    /\ UNCHANGED <<gen, current_obj, pages_obj, xref_pos, total_pages,
                   page_num, xi, textVars, largeVars, escVars, otherVars>>

LargePages ==
    /\ gen = "large" /\ pc = "pages"
    /\ obj_positions' = DictSet(obj_positions, 2, Tell(out))
    /\ out' = Write(out, LargePagesObj)
    /\ pc' = "page"
    /\ UNCHANGED <<gen, current_obj, pages_obj, xref_pos, total_pages,
                   page_num, xi, textVars, largeVars, escVars, otherVars>>

LargePage ==
    /\ gen = "large" /\ pc = "page"
    /\ obj_positions' = DictSet(obj_positions, 3, Tell(out))
    /\ out' = Write(out, LargePageObj)
    /\ pc' = "stream"
    /\ UNCHANGED <<gen, current_obj, pages_obj, xref_pos, total_pages,
                   page_num, xi, textVars, largeVars, escVars, otherVars>>

LargeStream ==
    /\ gen = "large" /\ pc = "stream"
    /\ obj_positions' = DictSet(obj_positions, 4, Tell(out))
    /\ out' = Write(out, LargeStreamObj)
    /\ pc' = "padding"
    /\ UNCHANGED <<gen, current_obj, pages_obj, xref_pos, total_pages,
                   page_num, xi, textVars, largeVars, escVars, otherVars>>

\* padding_needed = target_size - current_pos - footer_size
PaddingNoReserve(target, cur) == target - cur
PaddingNeeded(target, cur) == target - cur - footer_size

\* remaining = min(chunk_size, padding_needed - padding_written)
RemainingWholeChunk(cs, needed, written) == cs
Remaining(cs, needed, written) == Min(cs, needed - written)

\* current_pos, padding_needed; if padding_needed > 0: chunk_size,
\* padding_written = 0
LargePaddingNeeded ==
    /\ gen = "large" /\ pc = "padding"
    /\ current_pos' = Tell(out)
    /\ padding_needed' = PaddingNeeded(target_size(target_size_mb), Tell(out))
    /\ IF padding_needed' > 0
       THEN chunk' = chunk_size /\ padding_written' = 0 /\ pc' = "pad_loop"
       ELSE UNCHANGED <<chunk, padding_written,
                   tagVars>> /\ pc' = "xref_pos"
    /\ UNCHANGED <<gen, out, obj_positions, current_obj, pages_obj, xref_pos,
                   total_pages, page_num, xi, target_size_mb, textVars,
                   escVars, otherVars>>

\* one iteration of: while padding_written < padding_needed
LargePadChunk ==
    /\ gen = "large" /\ pc = "pad_loop" /\ padding_written < padding_needed
    /\ LET remaining == Remaining(chunk, padding_needed, padding_written)
       IN  /\ out' = Write(out, <<Padding(remaining)>>)
           /\ padding_written' = padding_written + remaining
    /\ UNCHANGED <<gen, pc, obj_positions, current_obj, pages_obj, xref_pos,
                   total_pages, page_num, xi, target_size_mb, current_pos,
                   padding_needed, chunk, textVars, escVars, otherVars>>

LargePadLoopEnd ==
    /\ gen = "large" /\ pc = "pad_loop" /\ padding_written >= padding_needed
    /\ pc' = "xref_pos"
    /\ UNCHANGED <<gen, out, obj_positions, current_obj, pages_obj, xref_pos,
                   total_pages, page_num, xi, textVars, largeVars, escVars,
                   otherVars>>

\* xref_pos = f.tell()
LargeXrefPosStale(f, cur) == cur
LargeXrefPosNow(f, cur) == Tell(f)

LargeXrefPos ==
    /\ gen = "large" /\ pc = "xref_pos"
    /\ xref_pos' = LargeXrefPosNow(out, current_pos)
    /\ pc' = "xref"
    /\ UNCHANGED <<gen, out, obj_positions, current_obj, pages_obj,
                   total_pages, page_num, xi, textVars, largeVars, escVars,
                   otherVars>>

LargeXref ==
    /\ gen = "large" /\ pc = "xref"
    /\ out' = Write(out, <<XrefKeyword,
                           [Pc("xref_hdr", 0, "0 5\n") EXCEPT !.val = 5],
                           FreeHead>>)
    /\ xi' = 1
    /\ pc' = "xref_loop"
    /\ UNCHANGED <<gen, obj_positions, current_obj, pages_obj, xref_pos,
                   total_pages, page_num, textVars, largeVars, escVars,
                   otherVars>>

\* one iteration of: for i in range(1, 5)
LargeXrefEntry ==
    /\ gen = "large" /\ pc = "xref_loop" /\ xi < 5
    /\ out' = Write(out, <<XrefEntry(xi, obj_positions[xi])>>)
    /\ xi' = xi + 1
    /\ UNCHANGED <<gen, pc, obj_positions, current_obj, pages_obj, xref_pos,
                   total_pages, page_num, textVars, largeVars, escVars,
                   otherVars>>

LargeXrefLoopEnd ==
    /\ gen = "large" /\ pc = "xref_loop" /\ xi >= 5
    /\ pc' = "trailer"
    /\ UNCHANGED <<gen, out, obj_positions, current_obj, pages_obj, xref_pos,
                   total_pages, page_num, xi, textVars, largeVars, escVars,
                   otherVars>>

LargeTrailer ==
    /\ gen = "large" /\ pc = "trailer"
    /\ out' = Write(out, Trailer(5, xref_pos, "", <<>>))
    /\ pc' = "done"
    /\ UNCHANGED <<gen, obj_positions, current_obj, pages_obj, xref_pos,
                   total_pages, page_num, xi, textVars, largeVars, escVars,
                   otherVars>>

NextLarge ==
    \/ LargeHeader \/ LargeCatalog \/ LargePages \/ LargePage \/ LargeStream
    \/ LargePaddingNeeded \/ LargePadChunk \/ LargePadLoopEnd
    \/ LargeXrefPos \/ LargeXref \/ LargeXrefEntry \/ LargeXrefLoopEnd
    \/ LargeTrailer

InitLarge ==
    /\ gen = "large" /\ pc = "open"
    /\ target_size_mb \in 1..MaxSizeMb
    /\ current_pos = 0 /\ padding_needed = 0 /\ padding_written = 0
    /\ chunk = 0
    /\ Idle /\ NoText /\ NoEscape /\ NoOther

\* the padding loop on its own: any positive padding_needed and chunk size
InitPad ==
    /\ gen = "large" /\ pc = "pad_loop"
    /\ padding_needed \in 1..MaxPad
    /\ chunk \in 1..MaxChunk
    /\ padding_written = 0
    /\ target_size_mb = 0 /\ current_pos = 0
    /\ Idle /\ NoText /\ NoEscape /\ NoOther

NextPad == LargePadChunk \/ LargePadLoopEnd

(***************************************************************************)
(* generate_unsupported_encryption_pdf.                                    *)
(***************************************************************************)
EncCatalogObj ==
    << Introducer(1),
       [Pc("dict", 1, "<<\n/Type /Catalog\n/Pages 2 0 R\n>>\nendobj\n")
          EXCEPT !.type = "Catalog", !.refs = << <<"Pages", 2>> >>] >>

EncPagesObj ==
    << Introducer(2),
       [Pc("dict", 2, "<<\n/Type /Pages\n/Kids [3 0 R]\n/Count 1\n>>\nendobj\n")
          EXCEPT !.type = "Pages", !.refs = << <<"Kids", 3>> >>, !.val = 1] >>

EncPageObj ==
    << Introducer(3),
       [Pc("dict", 3,
           "<<\n/Type /Page\n/Parent 2 0 R\n/MediaBox [0 0 612 792]\n"
           \o "/Contents 4 0 R\n/Resources <<\n  /Font <<\n    /F1 <<\n"
           \o "      /Type /Font\n      /Subtype /Type1\n"
           \o "      /BaseFont /Helvetica\n    >>\n  >>\n>>\n>>\nendobj\n")
          EXCEPT !.type = "Page",
                 !.refs = << <<"Parent", 2>>, <<"Contents", 4>> >>] >>

EncContent == "BT\n/F1 12 Tf\n100 700 Td\n(Encrypted Document) Tj\nET\n"

\* f"... /Length {len(content)} ..."
EncStreamObj ==
    << Introducer(4),
       [Pc("dict", 4, "<<\n/Length " \o Str(Len(EncContent))
                      \o "\n>>\nstream\n")
          EXCEPT !.type = "Stream", !.val = Len(EncContent)],
       Pc("payload", 4, EncContent),
       Pc("endstream", 4, "endstream\nendobj\n") >>

EncEncryptObj ==
    << Introducer(5),
       [Pc("dict", 5,
           "<<\n/Filter /Standard\n/V 5\n/R 6\n/Length 1024\n/P -1\n"
           \o "/O <0000000000000000000000000000000000000000000000000000000000000000>\n"
           \o "/U <0000000000000000000000000000000000000000000000000000000000000000>\n"
           \o "/OE <0000000000000000000000000000000000000000000000000000000000000000>\n"
           \o "/UE <0000000000000000000000000000000000000000000000000000000000000000>\n"
           \o "/Perms <0000000000000000000000000000000000>\n"
           \o "/StrF /StdCF\n/StmF /StdCF\n/CF <<\n  /StdCF <<\n"
           \o "    /CFM /AESV3\n    /AuthEvent /DocOpen\n    /Length 32\n"
           \o "  >>\n>>\n>>\nendobj\n")
          EXCEPT !.type = "Encrypt"] >>

\* the five in-use entries, written as literals
EncXrefEntries ==
    << [Pc("entry", 1, "0000000009 00000 n \n") EXCEPT !.val = 9],
       [Pc("entry", 2, "0000000068 00000 n \n") EXCEPT !.val = 68],
       [Pc("entry", 3, "0000000135 00000 n \n") EXCEPT !.val = 135],
       [Pc("entry", 4, "0000000369 00000 n \n") EXCEPT !.val = 369],
       [Pc("entry", 5, "0000000478 00000 n \n") EXCEPT !.val = 478] >>

EncHeader ==
    /\ gen = "enc" /\ pc = "open"
    /\ out' = Write(<<>>, <<Pc("header", 0, "%PDF-1.7\n")>>)
    /\ pc' = "catalog"
    /\ UNCHANGED <<gen, obj_positions, current_obj, pages_obj, xref_pos,
                   total_pages, page_num, xi, textVars, largeVars, escVars,
                   otherVars>>

\* the writes of objects 1 to 5, one after the other
EncObject ==
    /\ gen = "enc"
    /\ \/ pc = "catalog" /\ out' = Write(out, EncCatalogObj) /\ pc' = "pages"
       \/ pc = "pages" /\ out' = Write(out, EncPagesObj) /\ pc' = "page"
       \/ pc = "page" /\ out' = Write(out, EncPageObj) /\ pc' = "stream"
       \/ pc = "stream" /\ out' = Write(out, EncStreamObj) /\ pc' = "encrypt"
       \/ pc = "encrypt" /\ out' = Write(out, EncEncryptObj) /\ pc' = "xref_pos"
    /\ UNCHANGED <<gen, obj_positions, current_obj, pages_obj, xref_pos,
                   total_pages, page_num, xi, textVars, largeVars, escVars,
                   otherVars>>

\* xref_pos = f.tell()
EncXrefPos ==
    /\ gen = "enc" /\ pc = "xref_pos"
    /\ xref_pos' = Tell(out)
    /\ pc' = "xref"
    /\ UNCHANGED <<gen, out, obj_positions, current_obj, pages_obj,
                   total_pages, page_num, xi, textVars, largeVars, escVars,
                   otherVars>>

EncXref ==
    /\ gen = "enc" /\ pc = "xref"
    /\ out' = Write(out, <<XrefKeyword,
                           [Pc("xref_hdr", 0, "0 6\n") EXCEPT !.val = 6],
                           FreeHead>> \o EncXrefEntries)
    /\ pc' = "trailer"
    /\ UNCHANGED <<gen, obj_positions, current_obj, pages_obj, xref_pos,
                   total_pages, page_num, xi, textVars, largeVars, escVars,
                   otherVars>>

EncTrailer ==
    /\ gen = "enc" /\ pc = "trailer"
    /\ out' = Write(out, Trailer(6, xref_pos, "/Encrypt " \o Ref(5) \o "\n",
                                 << <<"Encrypt", 5>> >>))
    /\ pc' = "done"
    /\ UNCHANGED <<gen, obj_positions, current_obj, pages_obj, xref_pos,
                   total_pages, page_num, xi, textVars, largeVars, escVars,
                   otherVars>>

NextEnc == EncHeader \/ EncObject \/ EncXrefPos \/ EncXref \/ EncTrailer

InitEnc ==
    /\ gen = "enc" /\ pc = "open"
    /\ Idle /\ NoText /\ NoLarge /\ NoEscape /\ NoOther

(***************************************************************************)
(* The other corruption variants of generate_corrupted_pdf.py.  A          *)
(* dictionary written without its closing >> and endobj is a piece of kind *)
(* "dict_open".                                                            *)
(***************************************************************************)
CORRUPTION_TYPES ==
    {"truncated", "invalid_header", "missing_xref", "corrupted_object",
     "unsupported_encryption", "malformed_stream"}

\* generate_truncated_pdf
TruncCatalogObj == EncCatalogObj

\* object 2, cut after its Kids line
TruncPagesObj ==
    << Introducer(2),
       [Pc("dict_open", 2, "<<\n/Type /Pages\n/Kids [3 0 R]\n")
          EXCEPT !.type = "Pages", !.refs = << <<"Kids", 3>> >>] >>

TruncHeader ==
    /\ gen = "truncated" /\ pc = "open"
    /\ out' = Write(<<>>, <<Pc("header", 0, "%PDF-1.4\n")>>)
    /\ pc' = "catalog"
    /\ UNCHANGED <<gen, obj_positions, current_obj, pages_obj, xref_pos,
                   total_pages, page_num, xi, textVars, largeVars, escVars,
                   otherVars>>

TruncObject ==
    /\ gen = "truncated"
    /\ \/ pc = "catalog" /\ out' = Write(out, TruncCatalogObj) /\ pc' = "pages"
       \/ pc = "pages" /\ out' = Write(out, TruncPagesObj) /\ pc' = "done"
    /\ UNCHANGED <<gen, obj_positions, current_obj, pages_obj, xref_pos,
                   total_pages, page_num, xi, textVars, largeVars, escVars,
                   otherVars>>

NextTrunc == TruncHeader \/ TruncObject

\* generate_invalid_header_pdf
InvCatalogObj == EncCatalogObj

InvHeader ==
    /\ gen = "invalid_header" /\ pc = "open"
    /\ out' = Write(<<>>, <<Pc("header", 0, "%PDF-99.99\n")>>)
    /\ pc' = "catalog"
    /\ UNCHANGED <<gen, obj_positions, current_obj, pages_obj, xref_pos,
                   total_pages, page_num, xi, textVars, largeVars, escVars,
                   otherVars>>

InvObject ==
    /\ gen = "invalid_header" /\ pc = "catalog"
    /\ out' = Write(out, InvCatalogObj)
    /\ pc' = "eof"
    /\ UNCHANGED <<gen, obj_positions, current_obj, pages_obj, xref_pos,
                   total_pages, page_num, xi, textVars, largeVars, escVars,
                   otherVars>>

InvEof ==
    /\ gen = "invalid_header" /\ pc = "eof"
    /\ out' = Write(out, <<Pc("eof", 0, "%%EOF\n")>>)
    /\ pc' = "done"
    /\ UNCHANGED <<gen, obj_positions, current_obj, pages_obj, xref_pos,
                   total_pages, page_num, xi, textVars, largeVars, escVars,
                   otherVars>>

NextInv == InvHeader \/ InvObject \/ InvEof

\* generate_missing_xref_pdf
MxCatalogObj == EncCatalogObj
MxPagesObj == EncPagesObj

MxHeader ==
    /\ gen = "missing_xref" /\ pc = "open"
    /\ out' = Write(<<>>, <<Pc("header", 0, "%PDF-1.4\n")>>)
    /\ pc' = "catalog"
    /\ UNCHANGED <<gen, obj_positions, current_obj, pages_obj, xref_pos,
                   total_pages, page_num, xi, textVars, largeVars, escVars,
                   otherVars>>

MxObject ==
    /\ gen = "missing_xref"
    /\ \/ pc = "catalog" /\ out' = Write(out, MxCatalogObj) /\ pc' = "pages"
       \/ pc = "pages" /\ out' = Write(out, MxPagesObj) /\ pc' = "trailer"
    /\ UNCHANGED <<gen, obj_positions, current_obj, pages_obj, xref_pos,
                   total_pages, page_num, xi, textVars, largeVars, escVars,
                   otherVars>>

\* the trailer with /Size 3, startxref 0 and the end-of-file marker
MxTrailer ==
    /\ gen = "missing_xref" /\ pc = "trailer"
    /\ out' = Write(out, Trailer(3, 0, "", <<>>))
    /\ pc' = "done"
    /\ UNCHANGED <<gen, obj_positions, current_obj, pages_obj, xref_pos,
                   total_pages, page_num, xi, textVars, largeVars, escVars,
                   otherVars>>

NextMx == MxHeader \/ MxObject \/ MxTrailer

\* generate_corrupted_object_pdf
\* object 1 without its closing >> and endobj
CoCatalogObj ==
    << Introducer(1),
       [Pc("dict_open", 1, "<<\n/Type /Catalog\n/Pages 2 0 R\n")
          EXCEPT !.type = "Catalog", !.refs = << <<"Pages", 2>> >>] >>

\* object 2, its Kids value not an array of references
CoPagesObj ==
    << Introducer(2),
       [Pc("dict", 2,
           "<<\n/Type /Pages\n/Kids CORRUPTED_DATA_HERE\n>>\nendobj\n")
          EXCEPT !.type = "Pages"] >>

CoHeader ==
    /\ gen = "corrupted_object" /\ pc = "open"
    /\ out' = Write(<<>>, <<Pc("header", 0, "%PDF-1.4\n")>>)
    /\ pc' = "catalog"
    /\ UNCHANGED <<gen, obj_positions, current_obj, pages_obj, xref_pos,
                   total_pages, page_num, xi, textVars, largeVars, escVars,
                   otherVars>>

CoObject ==
    /\ gen = "corrupted_object"
    /\ \/ pc = "catalog" /\ out' = Write(out, CoCatalogObj) /\ pc' = "pages"
       \/ pc = "pages" /\ out' = Write(out, CoPagesObj) /\ pc' = "eof"
    /\ UNCHANGED <<gen, obj_positions, current_obj, pages_obj, xref_pos,
                   total_pages, page_num, xi, textVars, largeVars, escVars,
                   otherVars>>

CoEof ==
    /\ gen = "corrupted_object" /\ pc = "eof"
    /\ out' = Write(out, <<Pc("eof", 0, "%%EOF\n")>>)
    /\ pc' = "done"
    /\ UNCHANGED <<gen, obj_positions, current_obj, pages_obj, xref_pos,
                   total_pages, page_num, xi, textVars, largeVars, escVars,
                   otherVars>>

NextCo == CoHeader \/ CoObject \/ CoEof

\* generate_malformed_stream_pdf
MsCatalogObj == EncCatalogObj
MsPagesObj == EncPagesObj

MsPageObj ==
    << Introducer(3),
       [Pc("dict", 3,
           "<<\n/Type /Page\n/Parent 2 0 R\n/MediaBox [0 0 612 792]\n"
           \o "/Contents 4 0 R\n>>\nendobj\n")
          EXCEPT !.type = "Page",
                 !.refs = << <<"Parent", 2>>, <<"Contents", 4>> >>] >>

\* the bytes 00 FF FE FD of the payload, one character standing for each
MsBinaryBytes == "~~~~"

\* the payload, character by character
MsPayloadChars ==
    << "C", "O", "R", "R", "U", "P", "T", "E", "D", "_", "B", "I", "N", "A",
       "R", "Y", "_", "D", "A", "T", "A", "_", "~", "~", "~", "~", "\n" >>

MsPayload == "CORRUPTED_BINARY_DATA_" \o MsBinaryBytes \o "\n"

\* object 4: /Length 9999 written as a literal before the payload
MsStreamObjExact ==
    << Introducer(4),
       [Pc("dict", 4, "<<\n/Length " \o Str(Len(MsPayload))
                      \o "\n>>\nstream\n")
          EXCEPT !.type = "Stream", !.val = Len(MsPayload)],
       [Pc("payload", 4, MsPayload) EXCEPT !.lines = <<MsPayloadChars>>],
       Pc("endstream", 4, "endstream\nendobj\n") >>
MsStreamObj ==
    << Introducer(4),
       [Pc("dict", 4, "<<\n/Length 9999\n>>\nstream\n")
          EXCEPT !.type = "Stream", !.val = 9999],
       [Pc("payload", 4, MsPayload) EXCEPT !.lines = <<MsPayloadChars>>],
       Pc("endstream", 4, "endstream\nendobj\n") >>

MsHeader ==
    /\ gen = "malformed_stream" /\ pc = "open"
    /\ out' = Write(<<>>, <<Pc("header", 0, "%PDF-1.4\n")>>)
    /\ pc' = "catalog"
    /\ UNCHANGED <<gen, obj_positions, current_obj, pages_obj, xref_pos,
                   total_pages, page_num, xi, textVars, largeVars, escVars,
                   otherVars>>

MsObject ==
    /\ gen = "malformed_stream"
    /\ \/ pc = "catalog" /\ out' = Write(out, MsCatalogObj) /\ pc' = "pages"
       \/ pc = "pages" /\ out' = Write(out, MsPagesObj) /\ pc' = "page"
       \/ pc = "page" /\ out' = Write(out, MsPageObj) /\ pc' = "stream"
       \/ pc = "stream" /\ out' = Write(out, MsStreamObj) /\ pc' = "eof"
    /\ UNCHANGED <<gen, obj_positions, current_obj, pages_obj, xref_pos,
                   total_pages, page_num, xi, textVars, largeVars, escVars,
                   otherVars>>

MsEof ==
    /\ gen = "malformed_stream" /\ pc = "eof"
    /\ out' = Write(out, <<Pc("eof", 0, "%%EOF\n")>>)
    /\ pc' = "done"
    /\ UNCHANGED <<gen, obj_positions, current_obj, pages_obj, xref_pos,
                   total_pages, page_num, xi, textVars, largeVars, escVars,
                   otherVars>>

NextMs == MsHeader \/ MsObject \/ MsEof

\* the six variants
NextCorrupt == NextTrunc \/ NextInv \/ NextMx \/ NextCo \/ NextEnc \/ NextMs

\* gen of the function that main() calls for a corruption type: the
\* if/elif chain calls no function for a name it does not list
VariantGen(v) ==
    IF v = "unsupported_encryption" THEN "enc"
    ELSE IF v \in CORRUPTION_TYPES THEN v
    ELSE "none"

(***************************************************************************)
(* generate_multipage_test_pdf.py.  The document is laid out by the        *)
(* reportlab library: doc.build places the flowables on the current page   *)
(* and starts a new page at every PageBreak.  The file written is modelled *)
(* as one piece per page, carrying the texts placed on the page.           *)
(***************************************************************************)
topics ==
    << "Artificial Intelligence and Machine Learning",
       "Cloud Computing Architecture",
       "Database Design Patterns",
       "Web Development Best Practices",
       "Cybersecurity Fundamentals",
       "Software Testing Strategies",
       "Agile Project Management",
       "Data Science and Analytics",
       "Mobile Application Development",
       "DevOps and CI/CD Pipelines",
       "Microservices Architecture",
       "Blockchain Technology",
       "Internet of Things (IoT)",
       "Virtual and Augmented Reality",
       "Quantum Computing Basics",
       "Natural Language Processing",
       "Computer Vision Applications",
       "Distributed Systems Design",
       "API Design and Documentation",
       "Performance Optimization Techniques" >>

\* topics[page_num % len(topics)], the list being 0-based in the code
Topic(k) == topics[(k % Len(topics)) + 1]

\* f"PAGE-{page_num:03d}"
PageId(k) == "PAGE-" \o ZeroPad(Str(k), 3)

\* f"MARKER-{page_num * 100}"
Marker(k) == "MARKER-" \o Str(k * 100)

\* the texts of generate_page_content(page_num) that depend on page_num
PageContent(k) ==
    << "Chapter " \o Str(k) \o ": " \o Topic(k),
       "This is page " \o Str(k) \o " of the test document.",
       "Page Identifier: ", PageId(k),
       "On this page, we discuss " \o Topic(k),
       "unique marker: ", Marker(k),
       "distinguished by its unique identifier ", PageId(k),
       "separate from pages " \o Str(k - 1) \o " and " \o Str(k + 1),
       "Unique ID: " \o Str(k * 999) >>

Flowable(kind, items) == [kind |-> kind, items |-> items]
PageBreak == Flowable("break", <<>>)

\* title, Spacer, subtitle, PageBreak
TitlePage(now, n) ==
    << Flowable("para", <<"Test Document for Page-Aware File Processing">>),
       Flowable("spacer", <<>>),
       Flowable("para", <<"Generated on " \o Str(now),
                          "Total Pages: " \o Str(n)>>),
       PageBreak >>

\* doc.build(elements): the texts of each page, a PageBreak closing a page
RECURSIVE BuildPages(_, _)
BuildPages(els, page) ==
    IF els = <<>> THEN <<page>>
    ELSE IF Head(els).kind = "break"
         THEN <<page>> \o BuildPages(Tail(els), <<>>)
         ELSE BuildPages(Tail(els), page \o Head(els).items)

\* the file of the built document
PdfFile(pages) ==
    [i \in 1..Len(pages) |-> [Pc("pdf_page", i, "") EXCEPT !.lines = pages[i]]]

\* doc, styles, the title page: datetime.now() is read here
MultiTitle ==
    /\ gen = "multi" /\ pc = "title"
    /\ \E now \in stamp..MaxClock :
          /\ stamp' = now
          /\ elements' = TitlePage(now, num_pages)
    /\ page_num' = 1
    /\ pc' = "loop"
    /\ UNCHANGED <<gen, out, num_pages, writerVars, textVars, largeVars,
                   escVars, wordVars, runVars, cliVars,
                   tagVars>>

\* one iteration of: for page_num in range(1, num_pages + 1)
MultiContent ==
    /\ gen = "multi" /\ pc = "loop" /\ page_num <= num_pages
    /\ elements' = elements \o <<Flowable("para", PageContent(page_num))>>
                    \o (IF page_num < num_pages THEN <<PageBreak>> ELSE <<>>)
    /\ page_num' = page_num + 1
    /\ UNCHANGED <<gen, pc, out, num_pages, stamp, writerVars, textVars,
                   largeVars, escVars, wordVars, runVars, cliVars,
                   tagVars>>

MultiLoopEnd ==
    /\ gen = "multi" /\ pc = "loop" /\ page_num > num_pages
    /\ pc' = "build"
    /\ UNCHANGED <<gen, out, page_num, multiVars, writerVars, textVars,
                   largeVars, escVars, wordVars, runVars, cliVars,
                   tagVars>>

\* doc.build(elements) writes the file
MultiBuild ==
    /\ gen = "multi" /\ pc = "build"
    /\ out' = PdfFile(BuildPages(elements, <<>>))
    /\ pc' = "done"
    /\ UNCHANGED <<gen, page_num, multiVars, writerVars, textVars,
                   largeVars, escVars, wordVars, runVars, cliVars,
                   tagVars>>

NextMulti == MultiTitle \/ MultiContent \/ MultiLoopEnd \/ MultiBuild

(***************************************************************************)
(* Generator functions called on their own, and called a second time with  *)
(* the same arguments.                                                     *)
(***************************************************************************)
InitCorruptFns ==
    /\ gen \in {"truncated", "invalid_header", "missing_xref",
                "corrupted_object", "malformed_stream"}
    /\ pc = "open"
    /\ Idle /\ NoText /\ NoLarge /\ NoEscape /\ NoOther

InitMulti ==
    /\ gen = "multi" /\ pc = "title"
    /\ num_pages \in 1..MaxPages
    /\ elements = <<>> /\ stamp = 1
    /\ Idle /\ NoText /\ NoLarge /\ NoEscape /\ NoWords /\ FirstRun /\ NoCli
    /\ NoTag

\* the first statement of a generator function
StartPc(g) ==
    CASE g = "text" -> "words" [] g = "multi" -> "title" [] OTHER -> "open"

\* the function is called again with the arguments of the first call; the
\* file of the first call is kept aside, the locals start afresh, the clock
\* and the arguments stay
SecondRun ==
    /\ run = 1 /\ pc = "done" /\ mpc = "none"
    /\ run' = 2 /\ prev_out' = out
    /\ pc' = StartPc(gen)
    /\ out' = <<>>
    /\ obj_positions' = EmptyDict /\ current_obj' = 0 /\ pages_obj' = 0
    /\ xref_pos' = 0 /\ total_pages' = 0 /\ page_num' = 0 /\ xi' = 0
    /\ current_pos' = 0 /\ padding_needed' = 0 /\ padding_written' = 0
    /\ chunk' = 0
    /\ wrapped_lines' = IF gen = "text" THEN <<>> ELSE wrapped_lines
    /\ words' = <<>> /\ elements' = <<>>
    /\ UNCHANGED <<gen, page_height, text_width, target_size_mb, word_count, num_pages,
                   stamp, escVars, cliVars,
                   tagVars>>

(***************************************************************************)
(* The main() functions of the four scripts.                               *)
(***************************************************************************)
\* the checks of word_count in main() of generate_lorem_pdf.py
WordCountRejected(w) == w <= 0 \/ w > 1000000

\* the checks of target_size in main() of generate_large_pdf_binary.py
SizeRejectedBelowZero(mb) == mb < 0 \/ mb > 10000
SizeRejected(mb) == mb <= 0 \/ mb > 10000

\* the check of args.pages in main() of generate_multipage_test_pdf.py
PagesRejected(n) == n < 1

\* str.lower() on the letters an answer is typed with
Lower(c) ==
    CASE c = "Y" -> "y" [] c = "E" -> "e" [] c = "S" -> "s" [] c = "N" -> "n"
      [] c = "O" -> "o" [] OTHER -> c
LowerStr(r) == [i \in 1..Len(r) |-> Lower(r[i])]

\* not (response.lower() not in ['y', 'yes'])
ConfirmsByDefault(r) == LowerStr(r) \in {<<>>, <<"y">>, <<"y", "e", "s">>}
Confirms(r) == LowerStr(r) \in {<<"y">>, <<"y", "e", "s">>}

\* what the caller may type at the prompt
Responses ==
    { <<>>, <<"y">>, <<"Y">>, <<"y", "e", "s">>, <<"Y", "E", "S">>,
      <<"Y", "e", "s">>, <<"n">>, <<"N">>, <<"n", "o">>, <<"y", "e">>,
      <<" ", "y">>, <<"y", "e", "s", "s">> }

\* main() of generate_lorem_pdf.py
LoremValidate ==
    /\ prog = "lorem" /\ mpc = "validate"
    /\ IF WordCountRejected(word_count)
       THEN mpc' = "exit" /\ status' = 1
       ELSE mpc' = "exists" /\ UNCHANGED status
    /\ UNCHANGED <<out, writerVars, page_num, textVars, largeVars, escVars,
                   wordVars, multiVars, runVars, prog, variant, exists,
                   response, gen, pc, prompted, made_dir,
                   tagVars>>

LoremExists ==
    /\ prog = "lorem" /\ mpc = "exists"
    /\ IF exists
       THEN /\ prompted' = TRUE
            /\ IF ~Confirms(response)
               THEN mpc' = "exit" /\ status' = 0
               ELSE mpc' = "call" /\ UNCHANGED status
       ELSE mpc' = "call" /\ UNCHANGED <<prompted, status,
                   tagVars>>
    /\ UNCHANGED <<out, writerVars, page_num, textVars, largeVars, escVars,
                   wordVars, multiVars, runVars, prog, variant, exists,
                   response, gen, pc, made_dir,
                   tagVars>>

LoremCall ==
    /\ prog = "lorem" /\ mpc = "call"
    /\ gen' = "text" /\ pc' = "words"
    /\ mpc' = "running"
    /\ UNCHANGED <<out, writerVars, page_num, textVars, largeVars, escVars,
                   wordVars, multiVars, runVars, prog, variant, exists,
                   response, prompted, made_dir, status,
                   tagVars>>

LoremReturn ==
    /\ prog = "lorem" /\ mpc = "running" /\ pc \in {"done", "raised"}
    /\ status' = IF pc = "done" THEN 0 ELSE 1
    /\ mpc' = "exit"
    /\ UNCHANGED <<out, writerVars, page_num, textVars, largeVars, escVars,
                   wordVars, multiVars, runVars, prog, variant, exists,
                   response, gen, pc, prompted, made_dir,
                   tagVars>>

NextLoremMain == LoremValidate \/ LoremExists \/ LoremCall \/ LoremReturn

\* main() of generate_large_pdf_binary.py
LargeValidate ==
    /\ prog = "large" /\ mpc = "validate"
    /\ IF SizeRejected(target_size_mb)
       THEN mpc' = "exit" /\ status' = 1
       ELSE mpc' = "exists" /\ UNCHANGED status
    /\ UNCHANGED <<out, writerVars, page_num, textVars, largeVars, escVars,
                   wordVars, multiVars, runVars, prog, variant, exists,
                   response, gen, pc, prompted, made_dir,
                   tagVars>>

LargeExists ==
    /\ prog = "large" /\ mpc = "exists"
    /\ IF exists
       THEN /\ prompted' = TRUE
            /\ IF ~Confirms(response)
               THEN mpc' = "exit" /\ status' = 0
               ELSE mpc' = "call" /\ UNCHANGED status
       ELSE mpc' = "call" /\ UNCHANGED <<prompted, status,
                   tagVars>>
    /\ UNCHANGED <<out, writerVars, page_num, textVars, largeVars, escVars,
                   wordVars, multiVars, runVars, prog, variant, exists,
                   response, gen, pc, made_dir,
                   tagVars>>

LargeCall ==
    /\ prog = "large" /\ mpc = "call"
    /\ gen' = "large" /\ pc' = "open"
    /\ mpc' = "running"
    /\ UNCHANGED <<out, writerVars, page_num, textVars, largeVars, escVars,
                   wordVars, multiVars, runVars, prog, variant, exists,
                   response, prompted, made_dir, status,
                   tagVars>>

LargeReturn ==
    /\ prog = "large" /\ mpc = "running" /\ pc \in {"done", "raised"}
    /\ status' = IF pc = "done" THEN 0 ELSE 1
    /\ mpc' = "exit"
    /\ UNCHANGED <<out, writerVars, page_num, textVars, largeVars, escVars,
                   wordVars, multiVars, runVars, prog, variant, exists,
                   response, gen, pc, prompted, made_dir,
                   tagVars>>

NextLargeMain == LargeValidate \/ LargeExists \/ LargeCall \/ LargeReturn

\* main() of generate_corrupted_pdf.py
\* choices=list(CORRUPTION_TYPES.keys()) of the corruption_type argument
NameRejectedNever(v) == FALSE
NameRejected(v) == v \notin CORRUPTION_TYPES

\* parser.parse_args(): a name outside the choices is an argparse error,
\* which exits with status 2
CorruptParse ==
    /\ prog = "corrupt" /\ mpc = "parse"
    /\ IF NameRejected(variant)
       THEN mpc' = "exit" /\ status' = 2
       ELSE mpc' = "exists" /\ UNCHANGED status
    /\ UNCHANGED <<out, writerVars, page_num, textVars, largeVars, escVars,
                   wordVars, multiVars, runVars, prog, variant, exists,
                   response, gen, pc, prompted, made_dir,
                   tagVars>>

CorruptExists ==
    /\ prog = "corrupt" /\ mpc = "exists"
    /\ IF exists
       THEN /\ prompted' = TRUE
            /\ IF ~Confirms(response)
               THEN mpc' = "exit" /\ status' = 0
               ELSE mpc' = "call" /\ UNCHANGED status
       ELSE mpc' = "call" /\ UNCHANGED <<prompted, status,
                   tagVars>>
    /\ UNCHANGED <<out, writerVars, page_num, textVars, largeVars, escVars,
                   wordVars, multiVars, runVars, prog, variant, exists,
                   response, gen, pc, made_dir,
                   tagVars>>

\* the call; without a function called, os.path.getsize raises when the
\* file is not there
CorruptCall ==
    /\ prog = "corrupt" /\ mpc = "call"
    /\ gen' = VariantGen(variant)
    /\ pc' = IF gen' # "none" THEN "open"
             ELSE IF exists THEN "done" ELSE "raised"
    /\ mpc' = "running"
    /\ UNCHANGED <<out, writerVars, page_num, textVars, largeVars, escVars,
                   wordVars, multiVars, runVars, prog, variant, exists,
                   response, prompted, made_dir, status,
                   tagVars>>

CorruptReturn ==
    /\ prog = "corrupt" /\ mpc = "running" /\ pc \in {"done", "raised"}
    /\ status' = IF pc = "done" THEN 0 ELSE 1
    /\ mpc' = "exit"
    /\ UNCHANGED <<out, writerVars, page_num, textVars, largeVars, escVars,
                   wordVars, multiVars, runVars, prog, variant, exists,
                   response, gen, pc, prompted, made_dir,
                   tagVars>>

NextCorruptMain ==
    CorruptParse \/ CorruptExists \/ CorruptCall \/ CorruptReturn

\* main() of generate_multipage_test_pdf.py
MultiValidate ==
    /\ prog = "multi" /\ mpc = "validate"
    /\ IF PagesRejected(num_pages)
       THEN mpc' = "exit" /\ status' = 1
       ELSE mpc' = "mkdir" /\ UNCHANGED status
    /\ UNCHANGED <<out, writerVars, page_num, textVars, largeVars, escVars,
                   wordVars, multiVars, runVars, prog, variant, exists,
                   response, gen, pc, prompted, made_dir,
                   tagVars>>

\* output_path.parent.mkdir(parents=True, exist_ok=True)
MultiMkdir ==
    /\ prog = "multi" /\ mpc = "mkdir"
    /\ made_dir' = TRUE
    /\ mpc' = "call"
    /\ UNCHANGED <<out, writerVars, page_num, textVars, largeVars, escVars,
                   wordVars, multiVars, runVars, prog, variant, exists,
                   response, gen, pc, prompted, status,
                   tagVars>>

MultiCall ==
    /\ prog = "multi" /\ mpc = "call"
    /\ gen' = "multi" /\ pc' = "title"
    /\ mpc' = "running"
    /\ UNCHANGED <<out, writerVars, page_num, textVars, largeVars, escVars,
                   wordVars, multiVars, runVars, prog, variant, exists,
                   response, prompted, made_dir, status,
                   tagVars>>

MultiReturn ==
    /\ prog = "multi" /\ mpc = "running" /\ pc \in {"done", "raised"}
    /\ status' = IF pc = "done" THEN 0 ELSE 1
    /\ mpc' = "exit"
    /\ UNCHANGED <<out, writerVars, page_num, textVars, largeVars, escVars,
                   wordVars, multiVars, runVars, prog, variant, exists,
                   response, gen, pc, prompted, made_dir,
                   tagVars>>

NextMultiMain == MultiValidate \/ MultiMkdir \/ MultiCall \/ MultiReturn

NextMain == NextLoremMain \/ NextLargeMain \/ NextCorruptMain \/ NextMultiMain

\* the values given on the command line
WordArgs == {-1, 0} \cup (1..MaxWords) \cup {1000001}
SizeArgs == {-1, 0} \cup (1..MaxSizeMb) \cup {10001}
PageArgs == {-1, 0} \cup (1..MaxPages)
VariantArgs == CORRUPTION_TYPES \cup {"bogus", "TRUNCATED", "xref"}

\* a script started from the command line, the arguments parsed
InitMain ==
    /\ prog \in {"lorem", "large", "corrupt", "multi"}
    /\ mpc = IF prog = "corrupt" THEN "parse" ELSE "validate"
    /\ gen = "none" /\ pc = "none"
    /\ exists \in BOOLEAN
    /\ response \in (IF exists /\ prog # "multi" THEN Responses ELSE {<<>>})
    /\ prompted = FALSE /\ made_dir = FALSE /\ status = -1
    /\ word_count \in (IF prog = "lorem" THEN WordArgs ELSE {0})
    /\ target_size_mb \in (IF prog = "large" THEN SizeArgs ELSE {0})
    /\ num_pages \in (IF prog = "multi" THEN PageArgs ELSE {0})
    /\ variant \in (IF prog = "corrupt" THEN VariantArgs ELSE {""})
    /\ page_height = (IF prog = "lorem" THEN LetterHeight ELSE 0)
    /\ text_width = (IF prog = "lorem" THEN page_width - (2 * margin) ELSE 0)
    /\ stamp = (IF prog = "multi" THEN 1 ELSE 0)
    /\ wrapped_lines = <<>> /\ words = <<>> /\ elements = <<>>
    /\ current_pos = 0 /\ padding_needed = 0 /\ padding_written = 0
    /\ chunk = 0
    /\ Idle /\ NoEscape /\ FirstRun /\ NoTag

(***************************************************************************)
(* The escaping rule on its own: any line over the characters that matter. *)
(***************************************************************************)
EscChars == {"a", "\\", "(", ")"}

LinesUpTo(n) == UNION {[1..k -> EscChars] : k \in 0..n}

InitEscape ==
    /\ gen = "escape" /\ pc = "line"
    /\ line \in LinesUpTo(MaxLineLen)
    /\ escaped_line = <<>>
    /\ Idle /\ NoText /\ NoLarge /\ NoOther

\* escaped_line = line.replace(...).replace(...).replace(...)
EscapeLine ==
    /\ gen = "escape" /\ pc = "line"
    /\ escaped_line' = Escape(line)
    /\ pc' = "escaped"
    /\ UNCHANGED <<gen, out, obj_positions, current_obj, pages_obj, xref_pos,
                   total_pages, page_num, xi, textVars, largeVars, line,
                   otherVars>>

(***************************************************************************)
(* Specifications.                                                         *)
(***************************************************************************)
Init == InitText \/ InitLarge \/ InitEnc

Next == NextText \/ NextLarge \/ NextEnc

\* the generators as the program runs them
Spec == Init /\ [][Next]_vars

\* the layout and writing stage of the text generator on any input
SpecLayout == InitLayout /\ [][NextText]_vars

\* the generators on the program's inputs and on any input of the layout stage
SpecAll == (Init \/ InitLayout) /\ [][Next]_vars

\* the escaping rule on any line
SpecEscape == InitEscape /\ [][EscapeLine]_vars

\* every generator function
NextGen == NextWords \/ NextText \/ NextLarge \/ NextCorrupt \/ NextMulti

\* the four scripts run from the command line
SpecMain == InitMain /\ [][NextMain \/ NextGen]_vars

\* every generator function called once and then once more with the same
\* arguments
InitFns == InitWords \/ InitLarge \/ InitEnc \/ InitCorruptFns \/ InitMulti
SpecTwoRuns == InitFns /\ [][NextGen \/ SecondRun]_vars

\* the padding loop on any input; the loop is sequential code that keeps
\* running, so a step that is possible is eventually taken
SpecPad == InitPad /\ [][NextPad]_vars /\ WF_vars(NextPad)

\* the wrapping stage on its own: the page is narrowed so that a short text
\* wraps, never below the longest token, as the real width (65 characters)
\* is above the longest word of the list (13 letters and a mark); a text of
\* more than six words starts from six words already drawn
MaxWrapWords == 9

Opening ==
    << Capitalize(LOREM_WORDS[1]), LOREM_WORDS[2], LOREM_WORDS[1],
       LOREM_WORDS[2], LOREM_WORDS[2], LOREM_WORDS[1] >>

NarrowWidths == {51, 87}

InitWrap ==
    /\ gen = "text" /\ pc = "words"
    /\ word_count \in 1..MaxWrapWords
    /\ words = IF word_count > Len(Opening) THEN Opening ELSE <<>>
    /\ page_height = LetterHeight /\ wrapped_lines = <<>>
    /\ text_width \in NarrowWidths \cup {page_width - (2 * margin)}
    /\ Idle /\ NoLarge /\ NoEscape /\ NoMulti /\ FirstRun /\ NoCli
    /\ NoTag

SpecWrap == InitWrap /\ [][NextWords]_vars

(***************************************************************************)
(* tag-release.py.  The checkout, its remote and the git program are the   *)
(* surroundings of the run: repo holds what the run finds and does not     *)
(* change; tags, remote_tags and origin_main are what git commands change. *)
(***************************************************************************)
Versions == {"0.1.0", "0.2.0"}
Commits == {"a", "b"}

\* run_git_command ends the script: git is not installed, or the command
\* failed and check is set
GitExit(installed, returncode, check) ==
    ~installed \/ (check /\ returncode # 0)

\* the return codes a git command that can fail for outside reasons may give
ReturnCodes == {0, 128}

\* git rev-parse <name>: 0 when the name resolves to an object
RevParseReturnCode(name, names) == IF name \in names THEN 0 ELSE 128

\* if not version
NoVersion(v) == v = ""

\* if current_branch != "main"
NotOnMain(current_branch) == current_branch # "main"

\* if local_head != remote_head
NotUpToDateNever(local_head, remote_head) == FALSE
NotUpToDate(local_head, remote_head) == local_head # remote_head

\* sys.exit(1)
TagExit ==
    /\ tpc' = "exit" /\ tstatus' = 1

TagKeep == UNCHANGED <<genVars, pc, textVars, wordVars>>

\* the version is read from Cargo.toml
TagReadVersion ==
    /\ tpc = "cargo"
    /\ IF repo.cargo = "missing"
       THEN TagExit /\ UNCHANGED version
       ELSE /\ version' = repo.version
            /\ IF NoVersion(version')
               THEN TagExit
               ELSE tpc' = "branch" /\ UNCHANGED tstatus
    /\ UNCHANGED <<repo, origin_main, fetched, tags, remote_tags>>
    /\ TagKeep

\* git rev-parse --abbrev-ref HEAD and the check of the branch
TagCheckBranch ==
    /\ tpc = "branch"
    /\ \E rc \in ReturnCodes :
          IF GitExit(repo.git, rc, TRUE) \/ NotOnMain(repo.branch)
          THEN TagExit
          ELSE tpc' = "clean" /\ UNCHANGED tstatus
    /\ UNCHANGED <<repo, version, origin_main, fetched, tags, remote_tags>>
    /\ TagKeep

\* git status --porcelain and the check of its output
TagCheckClean ==
    /\ tpc = "clean"
    /\ \E rc \in ReturnCodes :
          IF GitExit(repo.git, rc, TRUE) \/ repo.dirty
          THEN TagExit
          ELSE tpc' = "fetch" /\ UNCHANGED tstatus
    /\ UNCHANGED <<repo, version, origin_main, fetched, tags, remote_tags>>
    /\ TagKeep

\* git fetch origin: origin/main follows the remote, and tags of the remote
\* that point into the fetched history come along
TagFetch ==
    /\ tpc = "fetch"
    /\ \E rc \in ReturnCodes :
          IF GitExit(repo.git, rc, TRUE)
          THEN TagExit /\ UNCHANGED <<origin_main, fetched, tags>>
          ELSE /\ origin_main' = repo.remote_main
               /\ fetched' = TRUE
               /\ tags' \in {tags, tags \cup remote_tags}
               /\ tpc' = "heads" /\ UNCHANGED tstatus
    /\ UNCHANGED <<repo, version, remote_tags>>
    /\ TagKeep

\* git rev-parse HEAD, git rev-parse origin/main and their comparison
TagUpToDate ==
    /\ tpc = "heads"
    /\ \E rc1 \in ReturnCodes, rc2 \in ReturnCodes :
          LET local_head == repo.head
              remote_head == origin_main
          IN  IF \/ GitExit(repo.git, rc1, TRUE)
                 \/ GitExit(repo.git, rc2, TRUE)
                 \/ NotUpToDate(local_head, remote_head)
              THEN TagExit
              ELSE tpc' = "tag_check" /\ UNCHANGED tstatus
    /\ UNCHANGED <<repo, version, origin_main, fetched, tags, remote_tags>>
    /\ TagKeep

\* git rev-parse <version> with check=False: return code 0 ends the run
TagCheckExists ==
    /\ tpc = "tag_check"
    /\ LET returncode == RevParseReturnCode(version, tags \cup repo.refs)
       IN  IF GitExit(repo.git, returncode, FALSE) \/ returncode = 0
           THEN TagExit
           ELSE tpc' = "create" /\ UNCHANGED tstatus
    /\ UNCHANGED <<repo, version, origin_main, fetched, tags, remote_tags>>
    /\ TagKeep

\* git tag -a <version> -m ...: git refuses a name that is already a tag
TagCreate ==
    /\ tpc = "create"
    /\ \E rc \in (IF version \in tags THEN {128} ELSE ReturnCodes) :
          IF GitExit(repo.git, rc, TRUE)
          THEN TagExit /\ UNCHANGED tags
          ELSE /\ tags' = tags \cup {version}
               /\ tpc' = "push" /\ UNCHANGED tstatus
    /\ UNCHANGED <<repo, version, origin_main, fetched, remote_tags>>
    /\ TagKeep

\* git push origin <version>: the remote refuses a tag it already has
TagPush ==
    /\ tpc = "push"
    /\ \E rc \in (IF version \in remote_tags THEN {1} ELSE {0, 1}) :
          IF GitExit(repo.git, rc, TRUE)
          THEN TagExit /\ UNCHANGED remote_tags
          ELSE /\ remote_tags' = remote_tags \cup {version}
               /\ tpc' = "exit" /\ tstatus' = 0
    /\ UNCHANGED <<repo, version, origin_main, fetched, tags>>
    /\ TagKeep

NextTag ==
    \/ TagReadVersion \/ TagCheckBranch \/ TagCheckClean \/ TagFetch
    \/ TagUpToDate \/ TagCheckExists \/ TagCreate \/ TagPush

\* the script is started in any checkout
InitTag ==
    /\ tpc = "cargo" /\ version = "" /\ fetched = FALSE /\ tstatus = -1
    /\ repo \in [git : BOOLEAN, cargo : {"missing", "found"},
                  version : Versions \cup {""}, branch : {"main", "dev"},
                  dirty : BOOLEAN, head : {"a"}, remote_main : Commits,
                  refs : {{}, {"0.2.0"}}, tags : SUBSET Versions,
                  remote_tags : SUBSET Versions]
    /\ repo.cargo = "missing" => repo.version = ""
    /\ origin_main \in Commits
    /\ tags = repo.tags /\ remote_tags = repo.remote_tags
    /\ gen = "none" /\ pc = "none"
    /\ Idle /\ NoText /\ NoLarge /\ NoEscape
    /\ NoWords /\ NoMulti /\ FirstRun /\ NoCli

SpecTag == InitTag /\ [][NextTag]_vars

(***************************************************************************)
(* Reading the written file back.                                          *)
(***************************************************************************)
\* the byte offset at which piece i of the file starts
Offset(f, i) == SumLen(f, i - 1)

Where(f, kind) == {i \in 1..Len(f) : f[i].k = kind}
WhereN(f, kind, n) == {i \in Where(f, kind) : f[i].n = n}

\* the pieces of one kind, in file order
Only(f, kind) == SelectSeq(f, LAMBDA p : p.k = kind)

\* the numbers of the objects whose introducer is in the file
ObjNums(f) == {f[i].n : i \in Where(f, "intro")}

\* the dictionaries of one type, in file order
OfType(f, t) == SelectSeq(f, LAMBDA p : p.k = "dict" /\ p.type = t)

\* the index entry of object n holds the offset of the introducer of n
EntryMatches(f, n) ==
    /\ WhereN(f, "entry", n) # {}
    /\ \A j \in WhereN(f, "entry", n) :
         \E i \in WhereN(f, "intro", n) :
             f[j].text = Fmt010d(Offset(f, i)) \o " 00000 n \n"

Written == pc = "done"

\* the offsets recorded and written so far are those of the introducers
C1_Recorded ==
    gen \in {"text", "large"} =>
      /\ \A i \in Where(out, "intro") :
           /\ WhereN(out, "intro", out[i].n) = {i}
           /\ out[i].n \in DOMAIN obj_positions
           /\ obj_positions[out[i].n] = Offset(out, i)
      /\ \A n \in DOMAIN obj_positions : n \in ObjNums(out)
      /\ \A j \in Where(out, "entry") : EntryMatches(out, out[j].n)
      /\ Written => \A n \in ObjNums(out) : EntryMatches(out, n)

\* a step keeps every recorded offset
C1_Kept ==
    \A n \in DOMAIN obj_positions :
        n \in DOMAIN obj_positions' /\ obj_positions'[n] = obj_positions[n]

(***************************************************************************)
(* C1: text and large-binary generators: the offset recorded and written   *)
(* in the index for object n is the number of bytes in the file when the   *)
(* introducer of n was written, for every object n, and a recorded offset  *)
(* never changes.                                                          *)
(***************************************************************************)
C1_IndexOffsets == [](C1_Recorded) /\ [][C1_Kept]_vars

C1_Witness ==
    /\ Written /\ gen = "text" /\ total_pages = 3
    /\ \E j \in WhereN(out, "entry", 8) : out[j].val > 1000

(***************************************************************************)
(* C2: unsupported_encryption variant: each of the five in-use index       *)
(* entries holds the byte offset at which the introducer of its object     *)
(* starts in the written file.                                             *)
(***************************************************************************)
C2_EncIndexOffsets ==
    gen = "enc" /\ Written => \A n \in 1..5 : EntryMatches(out, n)

(***************************************************************************)
(* C3: the number written after the start-of-index keyword is the offset   *)
(* at which the index keyword starts, and no byte is written between       *)
(* capturing xref_pos and writing the keyword.                             *)
(***************************************************************************)
C3_StartXref ==
    gen \in {"text", "large", "enc"} =>
      /\ pc = "xref" => xref_pos = Tell(out)
      /\ Cardinality(Where(out, "xref_kw")) <= 1
      /\ \A i \in Where(out, "xref_kw") : xref_pos = Offset(out, i)
      /\ \A j \in Where(out, "startxref") :
           \E i \in Where(out, "xref_kw") :
               out[j].text = "startxref\n" \o Str(Offset(out, i)) \o "\n"
      /\ Written => Where(out, "startxref") # {}

C3_Witness ==
    /\ Written /\ gen = "large" /\ padding_written > chunk_size
    /\ Where(out, "pad") # {}
    /\ \E j \in Where(out, "startxref") : out[j].val > chunk_size

Numbers(ps) == [i \in 1..Len(ps) |-> ps[i].n]
Texts(ps) == [i \in 1..Len(ps) |-> ps[i].text]

(***************************************************************************)
(* C4: text generator with P pages: the objects are numbered 1..N in       *)
(* ascending order, N = 2 + 2P; the index header reads "0 N+1", N in-use   *)
(* entries follow the free-head entry, and the trailer size is N + 1.      *)
(***************************************************************************)
C4_ObjectCount ==
    gen = "text" =>
      /\ Numbers(Only(out, "intro")) = [i \in 1..Len(Only(out, "intro")) |-> i]
      /\ Written =>
           LET N == 2 + 2 * total_pages
               free == CHOOSE i \in Where(out, "free") : TRUE
           IN  /\ Len(Only(out, "intro")) = N
               /\ Texts(Only(out, "xref_hdr")) = << "0 " \o Str(N + 1) \o "\n" >>
               /\ Cardinality(Where(out, "free")) = 1
               /\ Numbers(Only(out, "entry")) = [i \in 1..N |-> i]
               /\ \A i \in 1..N : out[free + i].k = "entry"
               /\ Texts(Only(out, "trailer")) =
                    << "trailer\n<<\n/Size " \o Str(N + 1)
                       \o "\n/Root 1 0 R\n>>\n" >>

C4_Witness ==
    /\ Written /\ gen = "text" /\ total_pages = 2
    /\ Len(Only(out, "entry")) = 6

ExpectedType(role) ==
    CASE role = "Pages" -> "Pages"
      [] role = "Parent" -> "Pages"
      [] role = "Kids" -> "Page"
      [] role = "Contents" -> "Stream"
      [] role = "Root" -> "Catalog"
      [] OTHER -> "None"

Resolves(f, ref) ==
    /\ ref[2] \in ObjNums(f)
    /\ \E i \in WhereN(f, "dict", ref[2]) : f[i].type = ExpectedType(ref[1])
    /\ \A i \in WhereN(f, "dict", ref[2]) : f[i].type = ExpectedType(ref[1])

(***************************************************************************)
(* C5: text and large-binary generators: every reference names an object   *)
(* that was written, of the expected kind: Pages and Parent name the       *)
(* Pages object, Kids name Page objects, Contents names a stream, Root     *)
(* names the Catalog.                                                      *)
(***************************************************************************)
C5_ReferencesResolve ==
    gen \in {"text", "large"} /\ Written =>
      /\ \A i \in 1..Len(out) : \A r \in 1..Len(out[i].refs) :
           Resolves(out, out[i].refs[r])
      /\ \E i \in Where(out, "trailer") : Len(out[i].refs) = 1
      /\ \A i \in Where(out, "dict") :
           /\ out[i].type = "Catalog" => Len(out[i].refs) = 1
           /\ out[i].type = "Page" => Len(out[i].refs) = 2
           /\ out[i].type = "Pages" => Len(out[i].refs) >= 1

C5_Witness ==
    /\ Written /\ gen = "text" /\ total_pages = 3
    /\ \E i \in Where(out, "dict") :
         out[i].type = "Page" /\ out[i].refs[2] = <<"Contents", 8>>

(***************************************************************************)
(* C6: text generator: the Count of the Pages object equals the number of  *)
(* Kids entries, the number of Page objects written and total_pages; the   *)
(* Kids are pairwise distinct and name the Page objects in page order.     *)
(***************************************************************************)
C6_PagesCount ==
    gen = "text" /\ Written =>
      LET pages == OfType(out, "Pages")
          page == OfType(out, "Page")
      IN  /\ Len(pages) = 1
          /\ pages[1].val = Len(pages[1].refs)
          /\ Len(pages[1].refs) = Len(page)
          /\ Len(page) = total_pages
          /\ \A a, b \in 1..Len(pages[1].refs) :
               a # b => pages[1].refs[a] # pages[1].refs[b]
          /\ \A a \in 1..Len(page) : pages[1].refs[a] = <<"Kids", page[a].n>>

C6_Witness ==
    /\ Written /\ gen = "text" /\ total_pages = 3
    /\ OfType(out, "Pages")[1].val = 3

(***************************************************************************)
(* C7: every stream of the text generator, the large-binary generator and  *)
(* the unsupported_encryption variant declares a Length equal to the       *)
(* number of payload bytes between the stream keyword line and the stream  *)
(* terminator, also for a page without lines.                              *)
(***************************************************************************)
C7_StreamLength ==
  gen \in {"text", "large", "enc"} =>
    /\ \A j \in Where(out, "payload") :
         /\ j > 1 /\ out[j - 1].k = "dict" /\ out[j - 1].type = "Stream"
         /\ out[j - 1].n = out[j].n
         /\ out[j - 1].val = PieceLen(out[j])
         /\ out[j - 1].text =
              "<<\n/Length " \o Str(PieceLen(out[j])) \o "\n>>\nstream\n"
    /\ \A i \in Where(out, "dict") :
         out[i].type = "Stream" =>
           i < Len(out) /\ out[i + 1].k = "payload"
    /\ \A j \in Where(out, "endstream") : out[j - 1].k = "payload"
    /\ Written => Where(out, "payload") # {}

C7_Witness ==
    /\ Written /\ gen = "text" /\ wrapped_lines = <<>>
    /\ \E j \in Where(out, "payload") :
         out[j].lines = <<>> /\ out[j - 1].val = PieceLen(out[j])

RECURSIVE Flatten(_)
Flatten(ss) == IF ss = <<>> THEN <<>> ELSE Head(ss) \o Flatten(Tail(ss))

PagesWritten(f) ==
    LET ps == Only(f, "payload") IN [i \in 1..Len(ps) |-> ps[i].lines]

Ceiling(a, b) == CHOOSE k \in 0..a : k * b >= a /\ (k - 1) * b < a

(***************************************************************************)
(* C8: the text generator partitions the wrapped lines into pages: the     *)
(* pages in order give back the lines, no page holds more than             *)
(* lines_per_page lines, every page but the last holds exactly             *)
(* lines_per_page lines, and there are ceil(L / lines_per_page) pages      *)
(* when L > 0.                                                             *)
(***************************************************************************)
C8_Partition ==
    gen = "text" /\ Written =>
      LET pages == PagesWritten(out)
          lpp == lines_per_page(page_height)
          L == Len(wrapped_lines)
      IN  /\ Flatten(pages) = wrapped_lines
          /\ \A p \in 1..Len(pages) : Len(pages[p]) <= lpp
          /\ \A p \in 1..(Len(pages) - 1) : Len(pages[p]) = lpp
          /\ L > 0 => Len(pages) = Ceiling(L, lpp)

C8_Witness ==
    /\ Written /\ gen = "text" /\ Len(wrapped_lines) = 7
    /\ lines_per_page(page_height) = 3
    /\ Len(PagesWritten(out)) = 3 /\ Len(PagesWritten(out)[3]) = 1

(***************************************************************************)
(* C9: with no wrapped line the text generator still writes exactly one    *)
(* page: one Page object, one content stream without text lines, and a     *)
(* Pages Count of 1.                                                       *)
(***************************************************************************)
C9_EmptyOnePage ==
    gen = "text" /\ Written /\ wrapped_lines = <<>> =>
      /\ Len(OfType(out, "Page")) = 1
      /\ PagesWritten(out) = << <<>> >>
      /\ Len(OfType(out, "Pages")) = 1
      /\ OfType(out, "Pages")[1].val = 1
      /\ OfType(out, "Pages")[1].text =
           "<<\n/Type /Pages\n/Kids [3 0 R]\n/Count 1\n>>\nendobj\n"

C9_Witness ==
    /\ Written /\ gen = "text" /\ wrapped_lines = <<>>
    /\ total_pages = 1 /\ Len(Only(out, "intro")) = 4

Special == {"\\", "(", ")"}

\* each character on its own: a special one preceded by one backslash
RECURSIVE CharWise(_)
CharWise(l) ==
    IF l = <<>> THEN <<>>
    ELSE (IF Head(l) \in Special THEN <<"\\", Head(l)>> ELSE <<Head(l)>>)
         \o CharWise(Tail(l))

\* a reader of a string literal: a backslash makes the next character literal
RECURSIVE Unescape(_)
Unescape(s) ==
    IF s = <<>> THEN <<>>
    ELSE IF Head(s) = "\\" /\ Len(s) >= 2
         THEN <<s[2]>> \o Unescape(SubSeq(s, 3, Len(s)))
         ELSE <<Head(s)>> \o Unescape(Tail(s))

(***************************************************************************)
(* C10: escaping puts one backslash before each backslash, "(" and ")" of  *)
(* the line and changes no other character, so that reading the escaped    *)
(* string literal back yields the line.                                    *)
(***************************************************************************)
C10_EscapeRoundTrip ==
    gen = "escape" /\ pc = "escaped" =>
      /\ escaped_line = CharWise(line)
      /\ Unescape(escaped_line) = line

C10_Witness ==
    /\ gen = "escape" /\ pc = "escaped"
    /\ line = <<"\\", "(", ")">>
    /\ Len(escaped_line) = 6

(***************************************************************************)
(* The scripts run from the command line.                                  *)
(***************************************************************************)
\* the output path has been opened for writing
Opened == out # <<>>

\* the answer is y or yes, in any case of the letters
SaysYes(r) == LowerStr(r) \in {<<"y">>, <<"y", "e", "s">>}

C11_Rejected ==
    \/ prog = "lorem" /\ (word_count <= 0 \/ word_count > 1000000)
    \/ prog = "large" /\ (target_size_mb <= 0 \/ target_size_mb > 10000)
    \/ prog = "multi" /\ num_pages <= 0

C11_One ==
    \/ prog = "lorem" /\ word_count = 1
    \/ prog = "large" /\ target_size_mb = 1
    \/ prog = "multi" /\ num_pages = 1

\* C11: text, large-binary and multi-page scripts: a count or size of 1 is
\* accepted, and a rejected value (zero or negative, more than 1,000,000
\* words, more than 10000 MB) ends the run with a non-zero status before
\* the overwrite prompt, before a directory is created and before the
\* output file is opened, so no file is created or modified.
C11_Validation ==
    /\ C11_Rejected =>
          /\ mpc \in {"validate", "exit"}
          /\ ~prompted /\ ~made_dir /\ ~Opened /\ gen = "none"
          /\ mpc = "exit" => status > 0
    /\ C11_One =>
          /\ mpc = "exit" => status = 0
          /\ (mpc = "exit" /\ (~exists \/ prog = "multi" \/ SaysYes(response)))
                => Opened /\ pc = "done"

C11_Witness ==
    /\ prog = "large" /\ target_size_mb = 10001 /\ exists
    /\ SaysYes(response)
    /\ mpc = "exit" /\ status = 1

\* C12: every script: when the output path exists, the file is never opened
\* for writing unless the caller was prompted before and answered y or yes;
\* an empty answer declines.
C12_PromptBeforeOverwrite ==
    (prog # "none" /\ exists /\ Opened) => (prompted /\ SaysYes(response))

\* C13: text, large-binary and corruption scripts: when the caller answers
\* the overwrite prompt with anything but y or yes (in any case), the run
\* ends at once with status zero, no generator function is entered and the
\* file is not opened, so its bytes stay as they were.
C13_DeclineNoOp ==
    (prompted /\ ~SaysYes(response)) =>
        /\ mpc = "exit" /\ status = 0
        /\ gen = "none" /\ pc = "none"
        /\ ~Opened

C13_Witness ==
    /\ prog = "corrupt" /\ exists /\ prompted
    /\ response = <<"y", "e">>
    /\ mpc = "exit" /\ status = 0 /\ ~Opened

(***************************************************************************)
(* Repeated runs.                                                          *)
(***************************************************************************)
\* C14: every generator: a second run with the arguments of the first
\* leaves a file with the very bytes the first run left.
C14_Idempotent == (run = 2 /\ pc = "done") => out = prev_out

(***************************************************************************)
(* The pages of the multi-page document.                                   *)
(***************************************************************************)
\* page K of the file shows the text s
Shows(f, K, s) ==
    K \in 1..Len(f) /\ \E i \in 1..Len(f[K].lines) : f[K].lines[i] = s

\* C15: multi-page generator asked for N pages: for every K in 1..N, page K
\* of the file shows PAGE-K (three digits) and MARKER-(100*K), and shows
\* neither the PAGE- nor the MARKER- identifier of K-1 or of K+1.
C15_PageMarkers ==
    (gen = "multi" /\ pc = "done") =>
        \A K \in 1..num_pages :
            /\ Shows(out, K, PageId(K)) /\ Shows(out, K, Marker(K))
            /\ ~Shows(out, K, PageId(K - 1)) /\ ~Shows(out, K, Marker(K - 1))
            /\ ~Shows(out, K, PageId(K + 1)) /\ ~Shows(out, K, Marker(K + 1))

\* C16: multi-page generator asked for N >= 1 pages: the document has
\* exactly N pages, the number its "Total Pages: N" text and its
\* "Generated PDF with N pages" summary give.
C16_PageCount ==
    (gen = "multi" /\ pc = "done") =>
        /\ Len(out) = num_pages
        /\ \E K \in 1..Len(out) :
              Shows(out, K, "Total Pages: " \o Str(Len(out)))

(***************************************************************************)
(* The size of the large-binary file.                                      *)
(***************************************************************************)
\* C17: for every accepted size the finished file of the large-binary
\* generator has a size S with target - 200 <= S <= target, and the footer
\* actually written (index table, trailer, end marker) is no longer than
\* the bytes reserved for it.
C17_FinalSize ==
    (gen = "large" /\ Written) =>
        LET target == target_size_mb * 1024 * 1024
            S == Tell(out)
        IN  /\ target - 200 <= S
            /\ S <= target
            /\ S - xref_pos <= footer_size

C17_Witness ==
    /\ gen = "large" /\ Written
    /\ target_size_mb = 1 /\ padding_written > 0
    /\ Tell(out) = 1048543

(***************************************************************************)
(* The padding loop.                                                       *)
(***************************************************************************)
C18_Chunks ==
    \A i \in 1..Len(out) :
        /\ out[i].k = "pad" /\ out[i].text = ""
        /\ out[i].zeros >= 1 /\ out[i].zeros <= chunk

C18_Safe ==
    /\ C18_Chunks
    /\ padding_written = Tell(out)
    /\ padding_written <= padding_needed
    /\ pc = "xref_pos" => padding_written = padding_needed

\* C18: for every positive padding_needed and positive chunk size the
\* padding loop terminates, writes only zero bytes, never more than a chunk
\* at a time, and exactly padding_needed bytes in total, so that the bytes
\* written are padding_needed zeros whatever the chunk size.
C18_PaddingLoop ==
    [] C18_Safe /\ <>(pc = "xref_pos" /\ Tell(out) = padding_needed)

C18_Witness ==
    /\ pc = "xref_pos" /\ Len(out) >= 2
    /\ out[Len(out)].zeros < chunk
    /\ Tell(out) = padding_needed

(***************************************************************************)
(* The structure of the corruption variants.                               *)
(***************************************************************************)
CorruptGens ==
    {"truncated", "invalid_header", "missing_xref", "corrupted_object",
     "enc", "malformed_stream"}

SupportedHeaders ==
    {"%PDF-1.0\n", "%PDF-1.1\n", "%PDF-1.2\n", "%PDF-1.3\n", "%PDF-1.4\n",
     "%PDF-1.5\n", "%PDF-1.6\n", "%PDF-1.7\n", "%PDF-2.0\n"}

\* the header names a supported version
V_Header(f) == f # <<>> /\ f[1].k = "header" /\ f[1].text \in SupportedHeaders

\* every object and every dictionary is terminated
V_Terminated(f) ==
    /\ Where(f, "dict_open") = {}
    /\ \A i \in Where(f, "intro") :
         i < Len(f) /\ f[i + 1].k = "dict" /\ f[i + 1].n = f[i].n
    /\ \A i \in Where(f, "payload") : i < Len(f) /\ f[i + 1].k = "endstream"

\* every reference names an object of the file
V_References(f) ==
    \A i \in 1..Len(f) : \A r \in 1..Len(f[i].refs) :
        f[i].refs[r][2] \in ObjNums(f)

\* the index table is there and holds the offset of every object
V_Index(f) ==
    /\ Where(f, "xref_kw") # {}
    /\ \A n \in ObjNums(f) : EntryMatches(f, n)

\* the trailer and the start-of-index are there
V_Trailer(f) == Where(f, "trailer") # {} /\ Where(f, "startxref") # {}

\* the declared length of every stream is the length of its payload
V_Length(f) ==
    \A j \in Where(f, "payload") :
        j > 1 /\ f[j - 1].type = "Stream" /\ f[j - 1].val = PieceLen(f[j])

\* the file ends with the end-of-file marker
V_Eof(f) == f # <<>> /\ f[Len(f)].k = "eof"

\* the structural rules the file breaks
Violated(f) ==
    {v \in {"header", "terminated", "references", "index", "trailer",
            "length", "eof"} :
        CASE v = "header" -> ~V_Header(f)
          [] v = "terminated" -> ~V_Terminated(f)
          [] v = "references" -> ~V_References(f)
          [] v = "index" -> ~V_Index(f)
          [] v = "trailer" -> ~V_Trailer(f)
          [] v = "length" -> ~V_Length(f)
          [] v = "eof" -> ~V_Eof(f)}

\* C19: each of the six corruption variants breaks exactly one of the
\* structural rules of a valid document (supported header version,
\* termination of objects and dictionaries, resolution of references,
\* presence and correctness of the index table, presence of trailer and
\* start-of-index, declared stream length, end-of-file marker) and keeps
\* all the others.
C19_ExactlyOne ==
    (gen \in CorruptGens /\ Written) => Cardinality(Violated(out)) = 1

\* C20: every corruption variant starts with a well-formed header line,
\* of a supported version except for invalid_header, and holds the
\* introducers of at least two distinct objects.
C20_HeaderAndObjects ==
    (gen \in CorruptGens /\ Written) =>
        /\ out[1].k = "header"
        /\ IF gen = "invalid_header"
           THEN out[1].text = "%PDF-99.99\n"
           ELSE V_Header(out)
        /\ Cardinality(ObjNums(out)) >= 2

\* C21: in the missing_xref variant the objects are valid (every object and
\* dictionary terminated, every reference, Kids included, naming an object
\* of the file), no index-table keyword is written, and the trailer is
\* there, followed by a start-of-index of 0 and the end-of-file marker.
C21_MissingXref ==
    (gen = "missing_xref" /\ Written) =>
        /\ V_Terminated(out) /\ V_References(out)
        /\ Where(out, "xref_kw") = {} /\ Where(out, "entry") = {}
        /\ \E i \in Where(out, "trailer") :
              /\ i + 2 = Len(out)
              /\ out[i + 1].k = "startxref" /\ out[i + 1].val = 0
              /\ out[i + 1].text = "startxref\n0\n"
              /\ out[i + 2].k = "eof"

(***************************************************************************)
(* The corruption type given on the command line.                          *)
(***************************************************************************)
SixNames ==
    {"truncated", "invalid_header", "missing_xref", "corrupted_object",
     "unsupported_encryption", "malformed_stream"}

\* the generator function of a variant name
FunctionOf(v) ==
    CASE v = "truncated" -> "truncated"
      [] v = "invalid_header" -> "invalid_header"
      [] v = "missing_xref" -> "missing_xref"
      [] v = "corrupted_object" -> "corrupted_object"
      [] v = "unsupported_encryption" -> "enc"
      [] v = "malformed_stream" -> "malformed_stream"

\* C22: a corruption type outside the six names is rejected when the
\* arguments are validated, before the overwrite prompt and before a file
\* is opened; a name among the six is dispatched to the generator function
\* of that variant and to no other, and that function creates the file.
C22_VariantDispatch ==
    prog = "corrupt" =>
        /\ variant \notin SixNames =>
              /\ mpc \in {"parse", "exit"}
              /\ ~prompted /\ ~Opened /\ gen = "none"
              /\ mpc = "exit" => status > 0
        /\ variant \in SixNames =>
              /\ gen \in {"none", FunctionOf(variant)}
              /\ mpc = "running" => gen = FunctionOf(variant)
              /\ (mpc = "exit" /\ (~exists \/ SaysYes(response))) =>
                    /\ status = 0 /\ gen = FunctionOf(variant)
                    /\ Opened /\ out[1].k = "header"

C22_Witness ==
    /\ prog = "corrupt" /\ variant = "TRUNCATED" /\ exists
    /\ SaysYes(response)
    /\ mpc = "exit" /\ status = 2 /\ ~Opened

(***************************************************************************)
(* The stream of the malformed_stream variant.                             *)
(***************************************************************************)
\* the characters sub occur in s, one after the other
Contains(s, sub) ==
    \E i \in 1..(Len(s) - Len(sub) + 1) :
        SubSeq(s, i, i + Len(sub) - 1) = sub

EndStreamKeyword == <<"e", "n", "d", "s", "t", "r", "e", "a", "m">>

\* C23: in the malformed_stream variant the declared Length, 9999, is
\* greater than the number of payload bytes written between the stream
\* keyword and the stream terminator, and the payload does not hold the
\* terminator keyword.
C23_DeclaredLength ==
    (gen = "malformed_stream" /\ Written) =>
        /\ Where(out, "payload") # {}
        /\ \A j \in Where(out, "payload") :
              /\ out[j - 1].type = "Stream" /\ out[j - 1].val = 9999
              /\ out[j - 1].text = "<<\n/Length 9999\n>>\nstream\n"
              /\ out[j - 1].val > PieceLen(out[j])
              /\ out[j + 1].k = "endstream"
              /\ Len(out[j].lines) = 1
              /\ Join(out[j].lines[1]) = out[j].text
              /\ ~Contains(out[j].lines[1], EndStreamKeyword)

C23_Witness ==
    /\ gen = "malformed_stream" /\ Written
    /\ \E j \in Where(out, "payload") :
          PieceLen(out[j]) = 27 /\ out[j - 1].val = 9999

(***************************************************************************)
(* The width and the order of the index entries.                           *)
(***************************************************************************)
\* C24: in the text and the large-binary generators every index entry is
\* 20 bytes (a 10-digit zero-padded offset, a space, a 5-digit generation,
\* a space, the flag, a space, a newline), the entries follow the fixed
\* free-head entry in ascending object-number order, and every object
\* offset has at most 10 digits; in the large-binary generator every
\* object starts before the padding, so its offset does not grow with
\* the target size.
C24_FixedWidthEntries ==
    gen \in {"text", "large"} =>
      /\ \A j \in Where(out, "free") :
            /\ PieceLen(out[j]) = 20
            /\ out[j].text = "0000000000 65535 f \n"
            /\ out[j - 1].k = "xref_hdr"
      /\ \A j \in Where(out, "entry") :
            /\ PieceLen(out[j]) = 20
            /\ Len(Str(out[j].val)) <= 10
            /\ Len(ZeroPad(Str(out[j].val), 10)) = 10
            /\ out[j].text = ZeroPad(Str(out[j].val), 10) \o " 00000 n \n"
            /\ \E i \in WhereN(out, "intro", out[j].n) :
                  out[j].val = Offset(out, i)
            /\ IF out[j].n = 1 THEN out[j - 1].k = "free"
               ELSE out[j - 1].k = "entry" /\ out[j - 1].n = out[j].n - 1
      /\ \A i \in Where(out, "intro") : Len(Str(Offset(out, i))) <= 10
      /\ gen = "large" =>
            \A i \in Where(out, "intro"), q \in Where(out, "pad") : i < q
      /\ Written =>
            {out[j].n : j \in Where(out, "entry")} = ObjNums(out)

C24_Witness ==
    /\ gen = "text" /\ Written
    /\ Cardinality(Where(out, "entry")) >= 6
    /\ \E j \in Where(out, "entry") : out[j].val >= 100

(***************************************************************************)
(* The forward references from the pages to their content streams.         *)
(***************************************************************************)
\* C26: in the text generator, for every page index i in 0..P-1 the object
\* number in the Contents reference of the i-th Page object is the number
\* under which the stream loop writes the one stream that holds the lines
\* [i*lines_per_page, (i+1)*lines_per_page) and the label 'Page i+1 of P';
\* no stream exists while the page loop runs, and no two pages share a
\* content stream.
C26_ForwardContents ==
    gen = "text" =>
      /\ pc = "page_loop" => Where(out, "payload") = {}
      /\ Written =>
            LET pages == OfType(out, "Page")
                P == Len(pages)
                lpp == lines_per_page(page_height)
                Contents(i) == pages[i + 1].refs[2]
                Slice(i) == SubSeq(wrapped_lines, i * lpp + 1,
                                   Min((i + 1) * lpp, Len(wrapped_lines)))
            IN  /\ P = total_pages
                /\ \A i \in 0..(P - 1) :
                      /\ Contents(i)[1] = "Contents"
                      /\ Cardinality(WhereN(out, "payload",
                                            Contents(i)[2])) = 1
                      /\ \A j \in WhereN(out, "payload", Contents(i)[2]) :
                            /\ out[j].lines = Slice(i)
                            /\ out[j].text =
                                 ContentStream(Slice(i), i, P, page_height)
                            /\ out[j - 2].k = "intro"
                            /\ out[j - 2].n = Contents(i)[2]
                /\ \A i, k \in 0..(P - 1) :
                      i # k => Contents(i)[2] # Contents(k)[2]

C26_Witness ==
    /\ gen = "text" /\ Written
    /\ Len(OfType(out, "Page")) >= 3
    /\ \E j \in Where(out, "payload") :
          out[j].text = ContentStream(out[j].lines, 2, total_pages,
                                      page_height)

(***************************************************************************)
(* The topics of the pages of the multi-page document.                     *)
(***************************************************************************)
\* the sentence of a content page that names its topic
Discusses(t) == "On this page, we discuss " \o t

\* C27: in a document of the multi-page generator, any two distinct content
\* pages carry different topics.
C27_DistinctTopics ==
    (gen = "multi" /\ pc = "done") =>
        \A K, J \in 1..Len(out) :
            K # J =>
              \A i \in 1..Len(topics) :
                  ~(Shows(out, K, Discusses(topics[i]))
                      /\ Shows(out, J, Discusses(topics[i])))

(***************************************************************************)
(* The order of the checks and the effects of tag-release.py.              *)
(***************************************************************************)
\* what the run has established when it creates the tag
ChecksPassed ==
    /\ repo.cargo = "found" /\ version = repo.version /\ version # ""
    /\ repo.branch = "main"
    /\ ~repo.dirty
    /\ fetched /\ origin_main = repo.remote_main
    /\ repo.head = origin_main

\* a step that creates a tag in the local repository
CreatesTag == tags' # tags /\ ~(fetched' /\ ~fetched)

\* C28: in tag-release.py the tag is created only after a version was
\* read, the branch is main, the working directory is clean, the fetch
\* succeeded, the local head equals the remote main head and no tag of
\* the name exists; the tag is pushed only after it was created; and a
\* run in which a check fails ends with a non-zero status and has neither
\* created nor pushed a tag.
C28_TagAfterChecks ==
    /\ [][/\ CreatesTag =>
               /\ ChecksPassed
               /\ version \notin tags
               /\ tags' = tags \cup {version}
          /\ remote_tags' # remote_tags =>
               /\ ChecksPassed
               /\ version \in tags /\ version \notin repo.tags
               /\ remote_tags' = remote_tags \cup {version}]_vars
    /\ [](tpc = "exit" =>
            /\ tstatus \in {0, 1}
            /\ tstatus = 0 =>
                  /\ ChecksPassed
                  /\ version \in tags /\ version \in remote_tags
            /\ (~ChecksPassed \/ version \in repo.tags) =>
                  /\ tstatus # 0
                  /\ remote_tags = repo.remote_tags
                  /\ tags \subseteq repo.tags \cup repo.remote_tags)

C28_Witness ==
    /\ tpc = "exit" /\ tstatus = 0
    /\ version \in tags /\ version \notin repo.tags
    /\ version \in remote_tags
    /\ fetched /\ origin_main = repo.head

(***************************************************************************)
(* The wrapped lines and the generated tokens.                             *)
(***************************************************************************)
\* line.split(' ')
RECURSIVE SplitSpaces(_, _)
SplitSpaces(t, cur) ==
    IF t = <<>> THEN <<cur>>
    ELSE IF Head(t) = " " THEN <<cur>> \o SplitSpaces(Tail(t), <<>>)
    ELSE SplitSpaces(Tail(t), Append(cur, Head(t)))

\* the tokens of the lines in order, blank lines skipped
RECURSIVE LineTokens(_)
LineTokens(ls) ==
    IF ls = <<>> THEN <<>>
    ELSE (IF Head(ls) = <<>> THEN <<>> ELSE SplitSpaces(Head(ls), <<>>))
         \o LineTokens(Tail(ls))

Wrapped == gen = "text" /\ pc = "paginate" /\ words # <<>>

\* C25: for a word count n >= 1, the wrapped lines of the text generator,
\* read in order with blank lines skipped and split on spaces, are the n
\* generated tokens in their order; exactly one blank line stands between
\* the lines of consecutive paragraphs, and the list of lines neither
\* starts nor ends with a blank line.
C25_LinesKeepTokens ==
    Wrapped =>
      LET ls == wrapped_lines
          blanks == {i \in 1..Len(ls) : ls[i] = <<>>}
          ends == {k \in 1..(Len(words) - 1) : EndsWithDot(words[k])}
      IN  /\ Len(words) = word_count
          /\ LineTokens(ls) = words
          /\ ls # <<>> /\ ls[1] # <<>> /\ ls[Len(ls)] # <<>>
          /\ \A i \in blanks :
                /\ ls[i - 1] # <<>> /\ ls[i + 1] # <<>>
                /\ EndsWithDot(ls[i - 1])
          /\ \A i \in 1..(Len(ls) - 1) :
                EndsWithDot(ls[i]) => ls[i + 1] = <<>>
          /\ Cardinality(blanks) = Cardinality(ends)

C25_Witness ==
    /\ Wrapped
    /\ \E i \in 2..(Len(wrapped_lines) - 3) :
          /\ wrapped_lines[i] # <<>> /\ ~EndsWithDot(wrapped_lines[i])
          /\ wrapped_lines[i + 1] # <<>>
          /\ wrapped_lines[i + 2] = <<>>
          /\ Len(LineTokens(<<wrapped_lines[i]>>)) >= 2

====
